---- MODULE Spec2Model ----
(***************************************************************************)
(* A model of json-syntax: the Object container (ordered entries plus the  *)
(* key index), the parser (character stream, sub-parsers, work stack), the *)
(* code map and the printer.                                               *)
(*                                                                         *)
(* Conventions.  Vec indices are 0-based as in the source; a TLA+ sequence *)
(* holds element i of a Vec at position i + 1 (see At).  A character is    *)
(* its Unicode code point.  Option::None is the record [some |-> FALSE].   *)
(***************************************************************************)
EXTENDS Integers, Sequences, FiniteSets, TLC

VARIABLES
    entries,    \* Object.entries : Vec<Entry>
    indexes,    \* Object.indexes : the buckets of IndexMap.table
    last,       \* the last Object operation: its name, arguments and result
    input,      \* the decoded character stream handed to the parser: a sequence
                \* of items, each a code point or StreamErr
    options,    \* Parser.options
    context,    \* the Context the parse was started in
    parser,     \* Parser.chars (as the number of items consumed) and Parser.position
    stack,      \* Value::parse_spanned : stack
    value,      \* Value::parse_spanned : value
    code_map,   \* the code map being built
    result,     \* what the parse returned, None while it runs
    origin      \* how the input was made: the value printed and the print options

objVars == <<entries, indexes, last>>
parseVars == <<input, options, context, parser, stack, value, code_map, result, origin>>
vars == <<entries, indexes, last, input, options, context, parser, stack, value, code_map,
          result, origin>>

(***************************************************************************)
(* Bounds of the model.                                                    *)
(***************************************************************************)
MaxEntries == 4

(***************************************************************************)
(* Generic helpers on sequences (Vec).                                     *)
(***************************************************************************)
At(s, i) == s[i + 1]

VecInsert(s, i, x) == SubSeq(s, 1, i) \o <<x>> \o SubSeq(s, i + 1, Len(s))

VecRemove(s, i) == SubSeq(s, 1, i) \o SubSeq(s, i + 2, Len(s))

Range(s) == {s[i] : i \in 1..Len(s)}

\* Lexicographic comparison of two sequences of integers (the Ord of str,
\* which compares the UTF-8 bytes, i.e. the code points in order).
RECURSIVE SeqCmp(_, _)
SeqCmp(s, t) ==
    IF s = <<>> /\ t = <<>> THEN 0
    ELSE IF s = <<>> THEN -1
    ELSE IF t = <<>> THEN 1
    ELSE IF Head(s) < Head(t) THEN -1
    ELSE IF Head(s) > Head(t) THEN 1
    ELSE SeqCmp(Tail(s), Tail(t))

(***************************************************************************)
(* Values.                                                                 *)
(***************************************************************************)
VNull == [kind |-> "null"]
VBoolean(b) == [kind |-> "boolean", bool |-> b]
VNumber(n) == [kind |-> "number", num |-> n]
VString(s) == [kind |-> "string", str |-> s]
VArray(a) == [kind |-> "array", items |-> a]
VObject(o) == [kind |-> "object", entries |-> o.entries, indexes |-> o.indexes]

Entry(k, v) == [key |-> k, value |-> v]

\* The position of a kind in the declaration of enum Value, which is the
\* order derive(Ord) gives to values of different kinds.
KindRank(v) ==
    CASE v.kind = "null" -> 0
      [] v.kind = "boolean" -> 1
      [] v.kind = "number" -> 2
      [] v.kind = "string" -> 3
      [] v.kind = "array" -> 4
      [] v.kind = "object" -> 5

\* A comparison of entries that looks at the keys only.
EntryCmpKeyOnly(a, b) == SeqCmp(a.key, b.key)

RECURSIVE ValueCmp(_, _)
RECURSIVE ValueSeqCmp(_, _)
RECURSIVE EntrySeqCmp(_, _)
EntryCmp(a, b) ==
    LET c == SeqCmp(a.key, b.key) IN IF c # 0 THEN c ELSE ValueCmp(a.value, b.value)

ValueSeqCmp(s, t) ==
    IF s = <<>> /\ t = <<>> THEN 0
    ELSE IF s = <<>> THEN -1
    ELSE IF t = <<>> THEN 1
    ELSE LET c == ValueCmp(Head(s), Head(t)) IN
         IF c # 0 THEN c ELSE ValueSeqCmp(Tail(s), Tail(t))

EntrySeqCmp(s, t) ==
    IF s = <<>> /\ t = <<>> THEN 0
    ELSE IF s = <<>> THEN -1
    ELSE IF t = <<>> THEN 1
    ELSE LET c == EntryCmp(Head(s), Head(t)) IN
         IF c # 0 THEN c ELSE EntrySeqCmp(Tail(s), Tail(t))

ValueCmp(a, b) ==
    IF KindRank(a) < KindRank(b) THEN -1
    ELSE IF KindRank(a) > KindRank(b) THEN 1
    ELSE CASE a.kind = "null" -> 0
           [] a.kind = "boolean" ->
                IF a.bool = b.bool THEN 0 ELSE IF b.bool THEN -1 ELSE 1
           [] a.kind = "number" -> SeqCmp(a.num, b.num)
           [] a.kind = "string" -> SeqCmp(a.str, b.str)
           [] a.kind = "array" -> ValueSeqCmp(a.items, b.items)
           [] a.kind = "object" -> EntrySeqCmp(a.entries, b.entries)

(***************************************************************************)
(* object/index_map.rs : Indexes.                                          *)
(***************************************************************************)
IndexesNew(rep) == [rep |-> rep, other |-> <<>>]

IndexesLen(ix) == 1 + Len(ix.other)

IndexesFirst(ix) == ix.rep

IsRedundant(ix) == ix.other # <<>>

\* slice::binary_search on a sorted Vec: Ok when present, otherwise Err(i)
\* with i the number of elements smaller than the one searched.
BinarySearchFound(s, x) == x \in Range(s)

BinarySearchPos(s, x) == Cardinality({j \in 1..Len(s) : s[j] < x})

\* An insert that pushes the index at the end of the list of other indices.
IndexesInsertAppend(ix, index) ==
    IF index # ix.rep
    THEN LET swap == index < ix.rep
             idx == IF swap THEN ix.rep ELSE index
             rep == IF swap THEN index ELSE ix.rep
         IN [rep |-> rep,
             other |-> IF BinarySearchFound(ix.other, idx)
                       THEN ix.other
                       ELSE Append(ix.other, idx)]
    ELSE ix

IndexesInsert(ix, index) ==
    IF index # ix.rep
    THEN LET swap == index < ix.rep
             idx == IF swap THEN ix.rep ELSE index
             rep == IF swap THEN index ELSE ix.rep
         IN [rep |-> rep,
             other |-> IF BinarySearchFound(ix.other, idx)
                       THEN ix.other
                       ELSE VecInsert(ix.other, BinarySearchPos(ix.other, idx), idx)]
    ELSE ix

\* A remove that promotes the largest of the other indices.
IndexesRemovePromoteLast(ix, index) ==
    IF ix.rep = index
    THEN IF ix.other = <<>>
         THEN [ix |-> ix, removed |-> FALSE]
         ELSE [ix |-> [rep |-> ix.other[Len(ix.other)],
                       other |-> SubSeq(ix.other, 1, Len(ix.other) - 1)],
               removed |-> TRUE]
    ELSE [ix |-> [rep |-> ix.rep,
                  other |-> SelectSeq(ix.other, LAMBDA x : x # index)],
          removed |-> TRUE]

\* Returns the new Indexes and the boolean result of Indexes::remove.
IndexesRemove(ix, index) ==
    IF ix.rep = index
    THEN IF ix.other = <<>>
         THEN [ix |-> ix, removed |-> FALSE]
         ELSE [ix |-> [rep |-> At(ix.other, 0), other |-> VecRemove(ix.other, 0)],
               removed |-> TRUE]
    ELSE [ix |-> [rep |-> ix.rep,
                  other |-> IF BinarySearchFound(ix.other, index)
                            THEN VecRemove(ix.other, BinarySearchPos(ix.other, index))
                            ELSE ix.other],
          removed |-> TRUE]

\* A shift_down that forgets the redundant indices.
IndexesShiftDownRepOnly(ix, index) ==
    [rep |-> IF ix.rep > index THEN ix.rep - 1 ELSE ix.rep, other |-> ix.other]

IndexesShiftDown(ix, index) ==
    [rep |-> IF ix.rep > index THEN ix.rep - 1 ELSE ix.rep,
     other |-> [j \in 1..Len(ix.other) |->
                  IF ix.other[j] > index THEN ix.other[j] - 1 ELSE ix.other[j]]]

IndexesShiftUp(ix, index) ==
    [rep |-> IF ix.rep >= index THEN ix.rep + 1 ELSE ix.rep,
     other |-> [j \in 1..Len(ix.other) |->
                  IF ix.other[j] >= index THEN ix.other[j] + 1 ELSE ix.other[j]]]

\* An iteration that yields the representative last.
IndexesIterRepLast(ix) == ix.other \o <<ix.rep>>

\* Indexes::iter / object::Indexes::next : the representative, then the others.
IndexesIter(ix) == <<ix.rep>> \o ix.other

(***************************************************************************)
(* object/index_map.rs : IndexMap.  The table is the set of its buckets;   *)
(* a bucket is found through the key of the entry its representative       *)
(* points to (equivalent_key).                                             *)
(***************************************************************************)
None == [some |-> FALSE]
Some(x) == [some |-> TRUE, val |-> x]

EquivalentKey(es, k, ix) == ix.rep < Len(es) /\ At(es, ix.rep).key = k

IndexMapGet(table, es, k) ==
    IF \E ix \in table : EquivalentKey(es, k, ix)
    THEN Some(CHOOSE ix \in table : EquivalentKey(es, k, ix))
    ELSE None

\* Returns the new table and the boolean result of IndexMap::insert.
IndexMapInsert(table, es, index) ==
    LET key == At(es, index).key
        found == IndexMapGet(table, es, key)
    IN IF found.some
       THEN [table |-> (table \ {found.val}) \cup {IndexesInsert(found.val, index)},
             fresh |-> FALSE]
       ELSE [table |-> table \cup {IndexesNew(index)}, fresh |-> TRUE]

IndexMapRemove(table, es, index) ==
    LET key == At(es, index).key
        found == IndexMapGet(table, es, key)
    IN IF found.some
       THEN LET r == IndexesRemove(found.val, index)
            IN IF r.removed
               THEN (table \ {found.val}) \cup {r.ix}
               ELSE table \ {found.val}
       ELSE table

IndexMapShiftDown(table, index) == {IndexesShiftDown(ix, index) : ix \in table}

IndexMapShiftUp(table, index) == {IndexesShiftUp(ix, index) : ix \in table}

ContainsDuplicateKeys(table) == \E ix \in table : IsRedundant(ix)

(***************************************************************************)
(* object/mod.rs : Object.  An object is the record [entries, indexes].    *)
(***************************************************************************)
ObjectNew == [entries |-> <<>>, indexes |-> {}]

RECURSIVE FromVecLoop(_, _, _)
FromVecLoop(es, table, i) ==
    IF i >= Len(es) THEN table
    ELSE FromVecLoop(es, IndexMapInsert(table, es, i).table, i + 1)

ObjectFromVec(es) == [entries |-> es, indexes |-> FromVecLoop(es, {}, 0)]

IndexOf(o, k) ==
    LET found == IndexMapGet(o.indexes, o.entries, k)
    IN IF found.some THEN Some(found.val.rep) ELSE None

\* A redundant_index_of that gives the highest redundant index.
RedundantIndexOfLast(o, k) ==
    LET found == IndexMapGet(o.indexes, o.entries, k)
    IN IF found.some /\ found.val.other # <<>>
       THEN Some(found.val.other[Len(found.val.other)])
       ELSE None

RedundantIndexOf(o, k) ==
    LET found == IndexMapGet(o.indexes, o.entries, k)
    IN IF found.some /\ found.val.other # <<>> THEN Some(At(found.val.other, 0)) ELSE None

\* Object::indexes_of : the positions yielded by the iterator, in order.
IndexesOf(o, k) ==
    LET found == IndexMapGet(o.indexes, o.entries, k)
    IN IF found.some THEN IndexesIter(found.val) ELSE <<>>

\* Object::get / get_entries : what the Values / Entries iterators yield.
GetEntries(o, k) ==
    LET ixs == IndexesOf(o, k)
    IN [j \in 1..Len(ixs) |-> At(o.entries, ixs[j])]

Get(o, k) ==
    LET ixs == IndexesOf(o, k)
    IN [j \in 1..Len(ixs) |-> At(o.entries, ixs[j]).value]

\* A push that keeps the first entry of a key and drops the later ones.
PushEntryUnique(o, e) ==
    IF IndexOf(o, e.key).some THEN [obj |-> o, fresh |-> FALSE]
    ELSE LET es == Append(o.entries, e)
         IN [obj |-> [entries |-> es,
                      indexes |-> IndexMapInsert(o.indexes, es, Len(o.entries)).table],
             fresh |-> TRUE]

\* Returns the new object and the boolean result of push_entry.
PushEntry(o, e) ==
    LET index == Len(o.entries)
        es == Append(o.entries, e)
        r == IndexMapInsert(o.indexes, es, index)
    IN [obj |-> [entries |-> es, indexes |-> r.table], fresh |-> r.fresh]

\* A push_entry_front that does not shift the index before inserting.
PushEntryFrontNoShift(o, e) ==
    LET es == VecInsert(o.entries, 0, e)
        r == IndexMapInsert(o.indexes, es, 0)
    IN [obj |-> [entries |-> es, indexes |-> r.table], fresh |-> r.fresh]

PushEntryFront(o, e) ==
    LET es == VecInsert(o.entries, 0, e)
        shifted == IndexMapShiftUp(o.indexes, 0)
        r == IndexMapInsert(shifted, es, 0)
    IN [obj |-> [entries |-> es, indexes |-> r.table], fresh |-> r.fresh]

\* Returns the new object and the Option<Entry> result of remove_at.
RemoveAt(o, index) ==
    IF index < Len(o.entries)
    THEN [obj |-> [entries |-> VecRemove(o.entries, index),
                   indexes |-> IndexMapShiftDown(
                                   IndexMapRemove(o.indexes, o.entries, index), index)],
          removed |-> Some(At(o.entries, index))]
    ELSE [obj |-> o, removed |-> None]

\* A drop that calls next() once instead of running the iterator to its end.
DrainOneRedundant(o, index) ==
    LET key == At(o.entries, index).key
        red == RedundantIndexOf(o, key)
        r == RemoveAt(o, red.val)
    IN IF red.some /\ r.removed.some THEN r.obj ELSE o

\* RemovedByInsertion / RemovedByInsertFront : the calls of next() that follow
\* the one that took `first`, run to exhaustion (Drop calls self.last()).  The
\* iterator ends when there is no redundant index or remove_at returns None.
RECURSIVE DrainRedundant(_, _)
DrainRedundant(o, index) ==
    LET key == At(o.entries, index).key
        red == RedundantIndexOf(o, key)
        r == RemoveAt(o, red.val)
    IN IF red.some /\ r.removed.some
       THEN DrainRedundant(r.obj, index)
       ELSE o

\* Object::insert followed by the drop of the returned iterator.
InsertDropped(o, k, v) ==
    LET found == IndexOf(o, k)
    IN IF found.some
       THEN DrainRedundant(
                [entries |-> [o.entries EXCEPT ![found.val + 1] = Entry(k, v)],
                 indexes |-> o.indexes],
                found.val)
       ELSE PushEntry(o, Entry(k, v)).obj

\* Object::insert_front followed by the drop of the returned iterator.
InsertFrontDropped(o, k, v) ==
    IF o.entries # <<>> /\ At(o.entries, 0).key = k
    THEN DrainRedundant(
             [entries |-> [o.entries EXCEPT ![1] = Entry(k, v)], indexes |-> o.indexes], 0)
    ELSE DrainRedundant(PushEntryFront(o, Entry(k, v)).obj, 0)

\* A remove that takes the first entry of the key only.
RemoveFirstOnly(o, k) ==
    LET found == IndexOf(o, k)
        r == RemoveAt(o, found.val)
    IN IF found.some /\ r.removed.some THEN r.obj ELSE o

\* Object::remove followed by the drop of the returned iterator: every
\* next() removes the entry at index_of(key).
RECURSIVE RemoveDropped(_, _)
RemoveDropped(o, k) ==
    LET found == IndexOf(o, k)
        r == RemoveAt(o, found.val)
    IN IF found.some /\ r.removed.some
       THEN RemoveDropped(r.obj, k)
       ELSE o

\* slice::sort_by : a stable sort.  Insertion of x after every element that
\* is not greater than x.
RECURSIVE SortedInsert(_, _)
SortedInsert(s, x) ==
    IF s = <<>> THEN <<x>>
    ELSE IF EntryCmp(x, Head(s)) < 0 THEN <<x>> \o s
    ELSE <<Head(s)>> \o SortedInsert(Tail(s), x)

RECURSIVE StableSort(_)
StableSort(s) ==
    IF s = <<>> THEN <<>>
    ELSE SortedInsert(StableSort(SubSeq(s, 1, Len(s) - 1)), s[Len(s)])

\* A sort that leaves the entries where they are.
ObjectSortNothing(o) == ObjectFromVec(o.entries)

ObjectSort(o) == ObjectFromVec(StableSort(o.entries))

(***************************************************************************)
(* The object under test: a sequence of operations from the empty object.  *)
(***************************************************************************)
KeyA == <<97>>
KeyB == <<98>>
Keys == {KeyA, KeyB}
ObjValues == {VNumber(<<49>>), VNumber(<<50>>)}

Obj == [entries |-> entries, indexes |-> indexes]

SetObj(o) == entries' = o.entries /\ indexes' = o.indexes

\* The record of an operation: `before` is the entry vector it was called on.
Called(op, k, v, i, ret) ==
    /\ last' = [op |-> op, key |-> k, value |-> v, index |-> i, ret |-> ret,
                before |-> entries]
    /\ UNCHANGED parseVars

\* The parser is not used by the Object machine.
ParserIdle ==
    /\ input = <<>>
    /\ options = [accept_truncated_surrogate_pair |-> FALSE,
                  accept_invalid_codepoints |-> FALSE]
    /\ context = "None"
    /\ parser = [pos |-> 0, span |-> [start |-> 0, end |-> 0],
                 last_span |-> [start |-> 0, end |-> 0]]
    /\ stack = <<>>
    /\ value = None
    /\ code_map = <<>>
    /\ result = None
    /\ origin = None

ObjInit ==
    /\ ParserIdle
    /\ entries = <<>>
    /\ indexes = {}
    /\ last = [op |-> "new", key |-> <<>>, value |-> VNull, index |-> -1, ret |-> FALSE,
               before |-> <<>>]

Push ==
    \E k \in Keys, v \in ObjValues :
        LET r == PushEntry(Obj, Entry(k, v)) IN
        /\ Len(entries) < MaxEntries
        /\ SetObj(r.obj)
        /\ Called("push", k, v, -1, r.fresh)

PushFront ==
    \E k \in Keys, v \in ObjValues :
        LET r == PushEntryFront(Obj, Entry(k, v)) IN
        /\ Len(entries) < MaxEntries
        /\ SetObj(r.obj)
        /\ Called("push_front", k, v, -1, r.fresh)

Insert ==
    \E k \in Keys, v \in ObjValues :
        /\ Len(entries) < MaxEntries
        /\ SetObj(InsertDropped(Obj, k, v))
        /\ Called("insert", k, v, -1, IndexOf(Obj, k).some)

InsertFront ==
    \E k \in Keys, v \in ObjValues :
        /\ Len(entries) < MaxEntries
        /\ SetObj(InsertFrontDropped(Obj, k, v))
        /\ Called("insert_front", k, v, -1, FALSE)

Remove ==
    \E k \in Keys :
        /\ SetObj(RemoveDropped(Obj, k))
        /\ Called("remove", k, VNull, -1, FALSE)

RemoveAtOp ==
    \E i \in 0..MaxEntries :
        LET r == RemoveAt(Obj, i) IN
        /\ SetObj(r.obj)
        /\ Called("remove_at", <<>>, VNull, i, r.removed.some)

Sort ==
    /\ SetObj(ObjectSort(Obj))
    /\ Called("sort", <<>>, VNull, -1, FALSE)

ObjNext == Push \/ PushFront \/ Insert \/ InsertFront \/ Remove \/ RemoveAtOp \/ Sort

SpecObject == ObjInit /\ [][ObjNext]_vars

(***************************************************************************)
(* C1.  After any sequence of Object operations from the empty object the  *)
(* key index is consistent with the entry vector: every position below len *)
(* is a member of exactly one Indexes set, which is the set the index      *)
(* gives for the key of that entry and holds only positions of entries     *)
(* with that key; the representative of a set is its minimum; its list of  *)
(* other indices is strictly ascending; and the sizes sum to len.          *)
(***************************************************************************)
Members(ix) == {ix.rep} \cup Range(ix.other)

RECURSIVE SumLen(_)
SumLen(table) ==
    IF table = {} THEN 0
    ELSE LET ix == CHOOSE x \in table : TRUE
         IN IndexesLen(ix) + SumLen(table \ {ix})

KeyAt(es, i) == IF i < Len(es) THEN Some(At(es, i).key) ELSE None

IndexSound(es, table) ==
    /\ \A i \in 0..(Len(es) - 1) :
          /\ Cardinality({ix \in table : i \in Members(ix)}) = 1
          /\ LET found == IndexMapGet(table, es, At(es, i).key)
             IN found.some /\ i \in Members(found.val)
    /\ \A ix \in table :
          /\ IndexesLen(ix) >= 1
          /\ \A j \in Members(ix) : j >= 0 /\ KeyAt(es, j) = KeyAt(es, ix.rep) /\ j < Len(es)
          /\ \A j \in 1..Len(ix.other) : ix.rep < ix.other[j]
          /\ \A j \in 1..(Len(ix.other) - 1) : ix.other[j] < ix.other[j + 1]
    /\ SumLen(table) = Len(es)

C1_IndexSound == IndexSound(entries, indexes)

\* A removal has just left an object in which a key still has a
\* representative and two redundant entries, the first entry having another key.
C1_Witness ==
    /\ last.op \in {"remove_at", "remove", "insert", "insert_front", "sort"}
    /\ \E ix \in indexes : Len(ix.other) >= 1 /\ ix.rep > 0
    /\ Len(entries) < Len(last.before)
(***************************************************************************)
(* The parser (src/parse.rs, src/parse/*.rs).                              *)
(*                                                                         *)
(* A Parser is the record [chars, span, last_span]: chars is what is left  *)
(* of the character stream (Peekable<C>), span and last_span are the two   *)
(* spans of Position.  A stream item is a code point, or StreamErr when    *)
(* the underlying stream fails at that place.  Every sub-parser takes the  *)
(* parser and returns Ok(parser', value) or Err(parser', error, metadata). *)
(***************************************************************************)
Ch == [tab |-> 9, lf |-> 10, vt |-> 11, ff |-> 12, cr |-> 13, space |-> 32,
       quote |-> 34, plus |-> 43, comma |-> 44, minus |-> 45, dot |-> 46,
       slash |-> 47, zero |-> 48, one |-> 49, nine |-> 57, colon |-> 58,
       E |-> 69, lbracket |-> 91, backslash |-> 92, rbracket |-> 93,
       a |-> 97, b |-> 98, e |-> 101, f |-> 102, l |-> 108, n |-> 110,
       r |-> 114, s |-> 115, t |-> 116, u |-> 117, lbrace |-> 123,
       rbrace |-> 125, A |-> 65, F |-> 70, del |-> 127, bs |-> 8,
       wj |-> 8288, bom |-> 65279, nul |-> 0, esc |-> 27, us |-> 31,
       five |-> 53, eacute |-> 233, ls |-> 8232, emoji |-> 128512]

StreamErr == -1

Span(start, end) == [start |-> start, end |-> end]
SpanPush(s, n) == Span(s.start, s.end + n)
SpanClear(s) == Span(s.end, s.end)
Min(x, y) == IF x <= y THEN x ELSE y
Max(x, y) == IF x >= y THEN x ELSE y
\* A union that keeps the start of the second span.
SpanUnionSecondStart(s, o) == Span(o.start, Max(s.end, o.end))
SpanUnion(s, o) == Span(Min(s.start, o.start), Max(s.end, o.end))

\* DecodedChar::len : the number of bytes of the character in the source.
Utf8Len(c) == IF c < 128 THEN 1 ELSE IF c < 2048 THEN 2 ELSE IF c < 65536 THEN 3 ELSE 4

Meta(v, m) == [v |-> v, span |-> m]
Ok(p, v) == [ok |-> TRUE, p |-> p, val |-> v]
Err(p, e, m) == [ok |-> FALSE, p |-> p, err |-> e, at |-> m]
ErrorStream == [kind |-> "Stream", c |-> None]
Unexpected(c) == [kind |-> "Unexpected", c |-> c]
IsSome(o, c) == o.some /\ o.val = c

\* `r?` followed by F: F goes on from an Ok, an Err is returned as it is.
Then(r, F(_)) == IF r.ok THEN F(r) ELSE r
\* `let x = e;` followed by F.
Let(e, F(_)) == F(e)

ParserNew(chars) == [chars |-> chars, span |-> Span(0, 0), last_span |-> Span(0, 0)]

\* A whitespace test that also takes form feed and vertical tab.
IsWhitespaceLax(c) == c \in {Ch.space, Ch.tab, Ch.cr, Ch.lf, Ch.ff, Ch.vt}

IsWhitespace(c) == c \in {Ch.space, Ch.tab, Ch.cr, Ch.lf}

\* A next_char that does not move the span.
NextCharNoPush(p) ==
    IF p.chars = <<>> THEN Ok(p, None)
    ELSE IF Head(p.chars) = StreamErr
    THEN Err([p EXCEPT !.chars = Tail(@)], ErrorStream, Span(p.span.end, p.span.end))
    ELSE Ok([p EXCEPT !.chars = Tail(@)], Some(Head(p.chars)))

NextChar(p) ==
    IF p.chars = <<>> THEN Ok(p, None)
    ELSE LET c == Head(p.chars)
         IN IF c = StreamErr
            THEN Err([p EXCEPT !.chars = Tail(@)], ErrorStream,
                     Span(p.span.end, p.span.end))
            ELSE Ok([chars |-> Tail(p.chars),
                     span |-> SpanPush(p.span, Utf8Len(c)),
                     last_span |-> SpanPush(SpanClear(p.last_span), Utf8Len(c))],
                    Some(c))

\* A peek_char that takes a failure of the stream for the end of the input.
PeekCharBlind(p) ==
    IF p.chars = <<>> \/ Head(p.chars) = StreamErr THEN Ok([p EXCEPT !.chars = <<>>], None)
    ELSE Ok(p, Some(Head(p.chars)))

PeekChar(p) ==
    IF p.chars = <<>> THEN Ok(p, None)
    ELSE IF Head(p.chars) = StreamErr THEN NextChar(p)
    ELSE Ok(p, Some(Head(p.chars)))

RECURSIVE SkipWhitespacesLoop(_)
SkipWhitespacesLoop(p) ==
    Then(PeekChar(p), LAMBDA pk :
        IF pk.val.some /\ IsWhitespace(pk.val.val)
        THEN Then(NextChar(p), LAMBDA n : SkipWhitespacesLoop(n.p))
        ELSE Ok(p, None))

SkipWhitespaces(p) ==
    Then(SkipWhitespacesLoop(p), LAMBDA r : Ok([r.p EXCEPT !.span = SpanClear(@)], None))

\* A Context that lets any character follow a value.
FollowsAnything(ctx, c) == TRUE

Follows(ctx, c) ==
    CASE ctx = "None" -> IsWhitespace(c)
      [] ctx = "Array" -> IsWhitespace(c) \/ c \in {Ch.comma, Ch.rbracket}
      [] ctx = "ObjectKey" -> IsWhitespace(c) \/ c = Ch.colon
      [] ctx = "ObjectValue" -> IsWhitespace(c) \/ c \in {Ch.comma, Ch.rbrace}

SkipTrailingWhitespaces(p, ctx) ==
    Then(SkipWhitespaces(p), LAMBDA r :
    Then(PeekChar(r.p), LAMBDA pk :
        IF pk.val.some /\ ~Follows(ctx, pk.val.val)
        THEN Err(r.p, Unexpected(pk.val), r.p.last_span)
        ELSE Ok(r.p, None)))

\* The nested matches of the literal parsers: each next character must be
\* the expected one.  v is the value of the literal.
RECURSIVE ExpectChars(_, _, _)
ExpectChars(p, expected, v) ==
    IF expected = <<>> THEN Ok(p, Meta(v, p.span))
    ELSE Then(NextChar(p), LAMBDA n :
            IF IsSome(n.val, Head(expected))
            THEN ExpectChars(n.p, Tail(expected), v)
            ELSE Err(n.p, Unexpected(n.val), n.p.last_span))

NullParse(p) == ExpectChars(p, <<Ch.n, Ch.u, Ch.l, Ch.l>>, VNull)

BoolParse(p) ==
    Then(NextChar(p), LAMBDA n :
        IF IsSome(n.val, Ch.t) THEN ExpectChars(n.p, <<Ch.r, Ch.u, Ch.e>>, VBoolean(TRUE))
        ELSE IF IsSome(n.val, Ch.f)
        THEN ExpectChars(n.p, <<Ch.a, Ch.l, Ch.s, Ch.e>>, VBoolean(FALSE))
        ELSE Err(n.p, Unexpected(n.val), n.p.last_span))

IsDigit(c) == c >= Ch.zero /\ c <= Ch.nine
IsNonZeroDigit(c) == c >= Ch.one /\ c <= Ch.nine
IsExponent(c) == c \in {Ch.e, Ch.E}

\* A number automaton that also takes a fraction with no digit after the dot.
NumberStepBareDot(state, c, ctx) ==
    CASE state = "Init" ->
            IF c = Ch.minus THEN "FirstDigit"
            ELSE IF c = Ch.zero THEN "Zero"
            ELSE IF IsNonZeroDigit(c) THEN "NonZero" ELSE "error"
      [] state = "FirstDigit" ->
            IF c = Ch.zero THEN "Zero"
            ELSE IF IsNonZeroDigit(c) THEN "NonZero" ELSE "error"
      [] state = "Zero" ->
            IF c = Ch.dot THEN "FractionalRest"
            ELSE IF IsExponent(c) THEN "ExponentSign"
            ELSE IF Follows(ctx, c) THEN "break" ELSE "error"
      [] state = "NonZero" ->
            IF IsDigit(c) THEN "NonZero"
            ELSE IF c = Ch.dot THEN "FractionalRest"
            ELSE IF IsExponent(c) THEN "ExponentSign"
            ELSE IF Follows(ctx, c) THEN "break" ELSE "error"
      [] state = "FractionalRest" ->
            IF IsDigit(c) THEN "FractionalRest"
            ELSE IF IsExponent(c) THEN "ExponentSign"
            ELSE IF Follows(ctx, c) THEN "break" ELSE "error"
      [] state = "ExponentSign" ->
            IF c \in {Ch.plus, Ch.minus} THEN "ExponentFirst"
            ELSE IF IsDigit(c) THEN "ExponentRest" ELSE "error"
      [] state = "ExponentFirst" ->
            IF IsDigit(c) THEN "ExponentRest" ELSE "error"
      [] state = "ExponentRest" ->
            IF IsDigit(c) THEN "ExponentRest"
            ELSE IF Follows(ctx, c) THEN "break" ELSE "error"

\* One turn of the match on (state, c): the next state, "break" when the
\* loop is left, "error" when the character is unexpected.
NumberStep(state, c, ctx) ==
    CASE state = "Init" ->
            IF c = Ch.minus THEN "FirstDigit"
            ELSE IF c = Ch.zero THEN "Zero"
            ELSE IF IsNonZeroDigit(c) THEN "NonZero" ELSE "error"
      [] state = "FirstDigit" ->
            IF c = Ch.zero THEN "Zero"
            ELSE IF IsNonZeroDigit(c) THEN "NonZero" ELSE "error"
      [] state = "Zero" ->
            IF c = Ch.dot THEN "FractionalFirst"
            ELSE IF IsExponent(c) THEN "ExponentSign"
            ELSE IF Follows(ctx, c) THEN "break" ELSE "error"
      [] state = "NonZero" ->
            IF IsDigit(c) THEN "NonZero"
            ELSE IF c = Ch.dot THEN "FractionalFirst"
            ELSE IF IsExponent(c) THEN "ExponentSign"
            ELSE IF Follows(ctx, c) THEN "break" ELSE "error"
      [] state = "FractionalFirst" ->
            IF IsDigit(c) THEN "FractionalRest" ELSE "error"
      [] state = "FractionalRest" ->
            IF IsDigit(c) THEN "FractionalRest"
            ELSE IF IsExponent(c) THEN "ExponentSign"
            ELSE IF Follows(ctx, c) THEN "break" ELSE "error"
      [] state = "ExponentSign" ->
            IF c \in {Ch.plus, Ch.minus} THEN "ExponentFirst"
            ELSE IF IsDigit(c) THEN "ExponentRest" ELSE "error"
      [] state = "ExponentFirst" ->
            IF IsDigit(c) THEN "ExponentRest" ELSE "error"
      [] state = "ExponentRest" ->
            IF IsDigit(c) THEN "ExponentRest"
            ELSE IF Follows(ctx, c) THEN "break" ELSE "error"

\* A conversion to u8 that folds upper case to lower case.
AsU8Lower(c) == IF c >= Ch.A /\ c <= Ch.A + 25 THEN c + 32 ELSE c % 256
\* `c as u8`
AsU8(c) == c % 256

NumberEnd(p, state, buffer) ==
    IF state \in {"Zero", "NonZero", "FractionalRest", "ExponentRest"}
    THEN Ok(p, Meta(VNumber(buffer), p.span))
    ELSE Err(p, Unexpected(None), p.last_span)

RECURSIVE NumberLoop(_, _, _, _)
NumberLoop(p, state, buffer, ctx) ==
    Then(PeekChar(p), LAMBDA pk :
        IF ~pk.val.some THEN NumberEnd(p, state, buffer)
        ELSE Let(NumberStep(state, pk.val.val, ctx), LAMBDA t :
            IF t = "error" THEN Err(p, Unexpected(pk.val), p.last_span)
            ELSE IF t = "break" THEN NumberEnd(p, state, buffer)
            ELSE Then(NextChar(p), LAMBDA n :
                    NumberLoop(n.p, t, Append(buffer, AsU8(pk.val.val)), ctx))))

NumberParse(p, ctx) == NumberLoop(p, "Init", <<>>, ctx)

(***************************************************************************)
(* The number sub-parser on its own: NumberBuf::parse_spanned is called on *)
(* a fresh parser, once, in each of the four contexts.                     *)
(***************************************************************************)
MaxNumLen == 3

Contexts == {"None", "Array", "ObjectKey", "ObjectValue"}

NumAlphabet == {Ch.minus, Ch.plus, Ch.zero, Ch.one, Ch.nine, Ch.dot, Ch.e, Ch.E,
                Ch.space, Ch.comma, Ch.rbracket, Ch.rbrace, Ch.colon}

\* Every character sequence of at most MaxNumLen characters ...
ShortNumInputs == UNION {[1..n -> NumAlphabet] : n \in 0..MaxNumLen}

\* ... and longer ones put together from a sign, an integer part, a
\* fraction, an exponent and what follows.
NumParts ==
    [sign |-> {<<>>, <<Ch.minus>>},
     int |-> {<<>>, <<Ch.zero>>, <<Ch.one>>, <<Ch.one, Ch.zero>>, <<Ch.zero, Ch.one>>},
     frac |-> {<<>>, <<Ch.dot>>, <<Ch.dot, Ch.zero>>, <<Ch.dot, Ch.nine, Ch.one>>},
     exp |-> {<<>>, <<Ch.e>>, <<Ch.e, Ch.one>>, <<Ch.E, Ch.plus, Ch.one>>,
              <<Ch.e, Ch.minus>>, <<Ch.E, Ch.zero>>, <<Ch.e, Ch.minus, Ch.one, Ch.zero>>},
     tail |-> {<<>>, <<Ch.space>>, <<Ch.lf, Ch.one>>, <<Ch.comma>>, <<Ch.rbracket>>,
               <<Ch.rbrace>>, <<Ch.colon>>, <<Ch.a>>, <<Ch.dot>>}]

LongNumInputs ==
    {s \o i \o f \o e \o t : s \in NumParts.sign, i \in NumParts.int,
        f \in NumParts.frac, e \in NumParts.exp, t \in NumParts.tail}

ObjIdle ==
    /\ entries = <<>>
    /\ indexes = {}
    /\ last = [op |-> "new", key |-> <<>>, value |-> VNull, index |-> -1,
               ret |-> FALSE, before |-> <<>>]

NumInit ==
    /\ ObjIdle
    /\ input \in ShortNumInputs \cup LongNumInputs
    /\ context \in Contexts
    /\ options = [accept_truncated_surrogate_pair |-> FALSE,
                  accept_invalid_codepoints |-> FALSE]
    /\ parser = ParserNew(input)
    /\ stack = <<>>
    /\ value = None
    /\ code_map = <<>>
    /\ result = None
    /\ origin = None

ParseNumber ==
    /\ ~result.some
    /\ LET r == NumberParse(parser, context)
       IN /\ result' = Some(r)
          /\ parser' = r.p
    /\ UNCHANGED <<entries, indexes, last, input, options, context, stack, value,
                   code_map, origin>>

NumNext == ParseNumber

SpecNumber == NumInit /\ [][NumNext]_vars

\* The number grammar, as a predicate on character sequences: an optional
\* minus; then 0, or a non-zero digit and any digits; then optionally a dot
\* and one digit or more; then optionally e or E, an optional sign and one
\* digit or more.
AllDigits(t) == \A i \in 1..Len(t) : IsDigit(t[i])
IsIntPart(t) == t = <<Ch.zero>> \/ (Len(t) >= 1 /\ IsNonZeroDigit(t[1]) /\ AllDigits(t))
IsFracPart(t) == t = <<>> \/ (Len(t) >= 2 /\ t[1] = Ch.dot /\ AllDigits(Tail(t)))
IsExpPart(t) ==
    \/ t = <<>>
    \/ /\ Len(t) >= 2
       /\ IsExponent(t[1])
       /\ LET r == IF t[2] \in {Ch.plus, Ch.minus} THEN Tail(Tail(t)) ELSE Tail(t)
          IN Len(r) >= 1 /\ AllDigits(r)
MatchesNumberGrammar(t) ==
    \E a \in 0..1 : \E b \in a..Len(t) : \E c \in b..Len(t) :
        /\ a = 1 => (Len(t) >= 1 /\ t[1] = Ch.minus)
        /\ IsIntPart(SubSeq(t, a + 1, b))
        /\ IsFracPart(SubSeq(t, b + 1, c))
        /\ IsExpPart(SubSeq(t, c + 1, Len(t)))

Consumed == SubSeq(input, 1, Len(input) - Len(parser.chars))

(***************************************************************************)
(* C3: the buffer of a parsed number is, byte for byte, the characters the *)
(* number sub-parser consumed from the source: nothing is normalised, so   *)
(* 1, 1.0 and 1e0 give three different buffers.  The span of the number    *)
(* covers exactly those characters.                                        *)
(***************************************************************************)
C3_NumberVerbatim ==
    (result.some /\ result.val.ok) =>
        /\ result.val.val.v = VNumber(Consumed)
        /\ result.val.val.span = Span(0, Len(Consumed))

C3_Witness ==
    /\ result.some /\ result.val.ok
    /\ result.val.val.v.num = <<Ch.minus, Ch.one, Ch.dot, Ch.zero, Ch.E, Ch.plus, Ch.one>>
    /\ parser.chars = <<Ch.rbracket>>

(***************************************************************************)
(* C4: the number sub-parser accepts exactly when a prefix of the input    *)
(* matches the number grammar (optional minus, integer part without        *)
(* leading zero, optional fraction, optional exponent) and that prefix is  *)
(* followed by the end of input or by a character the context lets follow  *)
(* a value; the prefix is then what it consumed.  Every other input ends   *)
(* in an Unexpected error.                                                 *)
(***************************************************************************)
C4_NumberGrammar ==
    result.some =>
        LET ends == {n \in 1..Len(input) :
                        /\ MatchesNumberGrammar(SubSeq(input, 1, n))
                        /\ (n = Len(input) \/ Follows(context, input[n + 1]))}
        IN /\ result.val.ok <=> ends # {}
           /\ result.val.ok => ends = {Len(Consumed)}
           /\ ~result.val.ok => result.val.err.kind = "Unexpected"

C4_Witness ==
    /\ result.some /\ ~result.val.ok
    /\ input = <<Ch.one, Ch.dot, Ch.comma>>
    /\ context = "Array"
    /\ result.val.err = Unexpected(Some(Ch.comma))
(***************************************************************************)
(* Strings (src/parse/string.rs).  A parsed string is the sequence of its  *)
(* code points.                                                            *)
(***************************************************************************)
U == [replacement |-> 65533, high_first |-> 55296, high_last |-> 56319,
      low_first |-> 56320, low_last |-> 57343, max |-> 1114111,
      control_last |-> 31, plane1 |-> 65536, u16 |-> 65536]

IsControl(c) == c >= 0 /\ c <= U.control_last

\* char::to_digit(16)
ToDigit16(c) ==
    IF IsDigit(c) THEN Some(c - Ch.zero)
    ELSE IF c >= Ch.a /\ c <= Ch.f THEN Some(c - Ch.a + 10)
    ELSE IF c >= Ch.A /\ c <= Ch.F THEN Some(c - Ch.A + 10)
    ELSE None

\* char::from_u32
CharFromU32(cp) ==
    IF (cp >= U.high_first /\ cp <= U.low_last) \/ cp > U.max THEN None ELSE Some(cp)

MissingLowSurrogate(high, m) ==
    [kind |-> "MissingLowSurrogate", c |-> None, high |-> high % U.u16, high_at |-> m]
InvalidLowSurrogate(high, m, cp) ==
    [kind |-> "InvalidLowSurrogate", c |-> None, high |-> high % U.u16, high_at |-> m,
     codepoint |-> cp]
InvalidUnicodeCodePoint(cp) ==
    [kind |-> "InvalidUnicodeCodePoint", c |-> None, codepoint |-> cp]

\* parse_hex4, with k digits still to read and acc the digits read so far.
RECURSIVE Hex4Loop(_, _, _)
Hex4Loop(p, k, acc) ==
    IF k = 0 THEN Ok(p, Meta(acc, p.span))
    ELSE Then(NextChar(p), LAMBDA n :
            IF n.val.some /\ ToDigit16(n.val.val).some
            THEN Hex4Loop(n.p, k - 1, acc * 16 + ToDigit16(n.val.val).val)
            ELSE Err(n.p, Unexpected(n.val), n.p.last_span))

ParseHex4(p) == Hex4Loop(p, 4, 0)

\* The character an escape letter stands for, None when it is not one.
EscapeChar(c) ==
    IF c \in {Ch.quote, Ch.backslash, Ch.slash} THEN Some(c)
    ELSE IF c = Ch.b THEN Some(Ch.bs)
    ELSE IF c = Ch.t THEN Some(Ch.tab)
    ELSE IF c = Ch.n THEN Some(Ch.lf)
    ELSE IF c = Ch.f THEN Some(Ch.ff)
    ELSE IF c = Ch.r THEN Some(Ch.cr)
    ELSE None

RECURSIVE StringLoop(_, _, _, _, _), StringPush(_, _, _, _, _, _),
          StringDecoded(_, _, _, _, _, _), StringUnicode(_, _, _, _, _),
          StringEscape(_, _, _, _, _)

\* An end of turn that replaces a pending high surrogate whatever the options.
StringPushLenient(p, c, res, high, span, opts) ==
    StringLoop([p EXCEPT !.span = SpanClear(@)],
               Append(IF high.some THEN Append(res, U.replacement) ELSE res, c),
               None, span, opts)

\* The end of a turn of the loop, once the character c is decoded.
StringPush(p, c, res, high, span, opts) ==
    IF high.some /\ ~opts.accept_truncated_surrogate_pair
    THEN Err(p, MissingLowSurrogate(high.val.v, high.val.span), p.span)
    ELSE StringLoop([p EXCEPT !.span = SpanClear(@)],
                    Append(IF high.some THEN Append(res, U.replacement) ELSE res, c),
                    None, span, opts)

\* A decoding that, where invalid code points are accepted, replaces every
\* escaped code point.
StringDecodedReplacing(p, cp, at, res, span, opts) ==
    IF opts.accept_invalid_codepoints
    THEN StringPush(p, U.replacement, res, None, span, opts)
    ELSE IF CharFromU32(cp).some THEN StringPush(p, cp, res, None, span, opts)
    ELSE Err(p, InvalidUnicodeCodePoint(cp), at)

\* match char::from_u32(codepoint)
StringDecoded(p, cp, at, res, span, opts) ==
    IF CharFromU32(cp).some THEN StringPush(p, cp, res, None, span, opts)
    ELSE IF opts.accept_invalid_codepoints
    THEN StringPush(p, U.replacement, res, None, span, opts)
    ELSE Err(p, InvalidUnicodeCodePoint(cp), at)

\* Some('u') => ...
StringUnicode(p, res, high, span, opts) ==
    Then(ParseHex4(p), LAMBDA h :
        IF high.some
        THEN IF h.val.v >= U.low_first /\ h.val.v <= U.low_last
             THEN StringDecoded(h.p,
                    ((high.val.v - U.high_first) * 1024 + (h.val.v - U.low_first))
                        + U.plane1,
                    SpanUnion(h.val.span, high.val.span), res, span, opts)
             ELSE IF opts.accept_truncated_surrogate_pair
             THEN StringDecoded(h.p, h.val.v, h.val.span, Append(res, U.replacement),
                                span, opts)
             ELSE Err(h.p, InvalidLowSurrogate(high.val.v, high.val.span, h.val.v),
                      h.val.span)
        ELSE IF h.val.v >= U.high_first /\ h.val.v <= U.high_last
        THEN StringLoop(h.p, res, Some(h.val), span, opts)
        ELSE StringDecoded(h.p, h.val.v, h.val.span, res, span, opts))

\* Some('\\') => match parser.next_char()? ...
StringEscape(p, res, high, span, opts) ==
    Then(NextChar(p), LAMBDA esc :
        IF esc.val.some /\ EscapeChar(esc.val.val).some
        THEN StringPush(esc.p, EscapeChar(esc.val.val).val, res, high, span, opts)
        ELSE IF IsSome(esc.val, Ch.u) THEN StringUnicode(esc.p, res, high, span, opts)
        ELSE Err(esc.p, Unexpected(esc.val), esc.p.last_span))

StringLoop(p, res, high, span, opts) ==
    Then(NextChar(p), LAMBDA n :
        IF IsSome(n.val, Ch.quote)
        THEN IF high.some /\ ~opts.accept_truncated_surrogate_pair
             THEN Err(n.p, MissingLowSurrogate(high.val.v, high.val.span), n.p.span)
             ELSE Ok([n.p EXCEPT !.span = SpanUnion(span, @)],
                     Meta(IF high.some THEN Append(res, U.replacement) ELSE res,
                          SpanUnion(span, n.p.span)))
        ELSE IF IsSome(n.val, Ch.backslash) THEN StringEscape(n.p, res, high, span, opts)
        ELSE IF n.val.some /\ ~IsControl(n.val.val)
        THEN StringPush(n.p, n.val.val, res, high, span, opts)
        ELSE Err(n.p, Unexpected(n.val), n.p.last_span))

StringParse(p, opts) ==
    Then(NextChar(p), LAMBDA n :
        IF IsSome(n.val, Ch.quote)
        THEN StringLoop([n.p EXCEPT !.span = SpanClear(@)], <<>>, None, n.p.span, opts)
        ELSE Err(n.p, Unexpected(n.val), n.p.last_span))
(***************************************************************************)
(* Array and object delimiters (src/parse/array.rs, src/parse/object.rs)   *)
(* and the value dispatch (src/parse/value.rs).                            *)
(***************************************************************************)
ArrayStart(p) ==
    Then(NextChar(p), LAMBDA n :
        IF ~IsSome(n.val, Ch.lbracket) THEN Err(n.p, Unexpected(n.val), n.p.last_span)
        ELSE Then(SkipWhitespaces(n.p), LAMBDA ws :
             Then(PeekChar(ws.p), LAMBDA pk :
                IF IsSome(pk.val, Ch.rbracket)
                THEN Then(NextChar(pk.p), LAMBDA nx : Ok(nx.p, Meta([tag |-> "Empty"], nx.p.span)))
                ELSE Ok(pk.p, Meta([tag |-> "NonEmpty"], pk.p.span)))))

ArrayContinue(p) ==
    Then(NextChar(p), LAMBDA n :
        IF IsSome(n.val, Ch.comma) THEN Ok(n.p, Meta([tag |-> "Item"], n.p.span))
        ELSE IF IsSome(n.val, Ch.rbracket) THEN Ok(n.p, Meta([tag |-> "End"], n.p.span))
        ELSE Err(n.p, Unexpected(n.val), n.p.last_span))

\* Key::parse_in, then the colon: the part the two object fragments share.
\* span is the span the fragment has gathered before the key.
KeyThenColon(p, span, tag, opts) ==
    Then(StringParse(p, opts), LAMBDA key :
    Then(SkipWhitespaces(key.p), LAMBDA ws :
    Then(NextChar(ws.p), LAMBDA n :
        IF IsSome(n.val, Ch.colon)
        THEN Ok(n.p, Meta([tag |-> tag, key |-> key.val], SpanUnion(span, key.p.span)))
        ELSE Err(n.p, Unexpected(n.val), n.p.last_span))))

ObjectStart(p, opts) ==
    Then(NextChar(p), LAMBDA n :
        IF ~IsSome(n.val, Ch.lbrace) THEN Err(n.p, Unexpected(n.val), n.p.last_span)
        ELSE Then(SkipWhitespaces(n.p), LAMBDA ws :
             Then(PeekChar(ws.p), LAMBDA pk :
                IF IsSome(pk.val, Ch.rbrace)
                THEN Then(NextChar(pk.p), LAMBDA nx : Ok(nx.p, Meta([tag |-> "Empty"], nx.p.span)))
                ELSE KeyThenColon([pk.p EXCEPT !.span = SpanClear(@)], pk.p.span,
                                  "NonEmpty", opts))))

ObjectContinue(p, opts) ==
    Then(NextChar(p), LAMBDA n :
        IF IsSome(n.val, Ch.comma)
        THEN Then(SkipWhitespaces(n.p), LAMBDA ws : KeyThenColon(ws.p, n.p.span, "Entry", opts))
        ELSE IF IsSome(n.val, Ch.rbrace) THEN Ok(n.p, Meta([tag |-> "End"], n.p.span))
        ELSE Err(n.p, Unexpected(n.val), n.p.last_span))

FragmentOfValue(v) == [tag |-> "Value", value |-> v]

\* The end of Fragment::parse_spanned for a complete value r.
FragmentValue(r, ctx) ==
    Then(r, LAMBDA v :
    Then(SkipTrailingWhitespaces(v.p, ctx), LAMBDA t :
        Ok(t.p, Meta(FragmentOfValue(v.val.v), v.val.span))))

\* The arm of the match on the peeked character c; q is the parser.
FragmentDispatch(q, c, ctx, opts) ==
    IF IsSome(c, Ch.n) THEN NullParse(q)
    ELSE IF IsSome(c, Ch.t) \/ IsSome(c, Ch.f) THEN BoolParse(q)
    ELSE IF c.some /\ (IsDigit(c.val) \/ c.val = Ch.minus) THEN NumberParse(q, ctx)
    ELSE IF IsSome(c, Ch.quote)
    THEN Then(StringParse(q, opts), LAMBDA s : Ok(s.p, Meta(VString(s.val.v), s.val.span)))
    ELSE IF IsSome(c, Ch.lbracket)
    THEN Then(ArrayStart(q), LAMBDA a :
            Ok(a.p, Meta(IF a.val.v.tag = "Empty" THEN VArray(<<>>)
                         ELSE [tag |-> "BeginArray"], a.val.span)))
    ELSE IF IsSome(c, Ch.lbrace)
    THEN Then(ObjectStart(q, opts), LAMBDA o :
            Ok(o.p, Meta(IF o.val.v.tag = "Empty" THEN VObject(ObjectNew)
                         ELSE [tag |-> "BeginObject", key |-> o.val.v.key], o.val.span)))
    ELSE Err(q, Unexpected(c), q.last_span)

FragmentParse(p, ctx, opts) ==
    Then(SkipWhitespaces(p), LAMBDA ws :
    Then(PeekChar(ws.p), LAMBDA pk :
    Then(FragmentDispatch(pk.p, pk.val, ctx, opts), LAMBDA r :
        IF "tag" \in DOMAIN r.val.v THEN r ELSE FragmentValue(r, ctx))))

\* ValueOrParse::value_or_parse
ValueOrParse(v, p, ctx, opts) ==
    IF v.some THEN Ok(p, Meta(FragmentOfValue(v.val.v), v.val.span))
    ELSE FragmentParse(p, ctx, opts)
(***************************************************************************)
(* The code map (src/code_map.rs): one entry [span, volume] per fragment.  *)
(* The parser reserves the entry of a fragment where the fragment begins   *)
(* and, where it ends, sets the end of its span and its volume.            *)
(***************************************************************************)
CodeMapEntry(span, volume) == [span |-> span, volume |-> volume]

\* A reserve that puts the new entry in front of the others.
CodeMapReserveFront(cm, position) == <<CodeMapEntry(Span(position, position), 0)>> \o cm

\* CodeMap::reserve : the new entry is at offset Len(cm).
CodeMapReserve(cm, position) == Append(cm, CodeMapEntry(Span(position, position), 0))

\* The end of the fragment reserved at offset i.
CodeMapClose(cm, i, end) ==
    [cm EXCEPT ![i + 1] = CodeMapEntry(Span(@.span.start, end), Len(cm) - i)]

\* The entries for a key: the entry of the whole object entry, left open,
\* then the entry of the key.
CodeMapKey(cm, key) ==
    Append(CodeMapReserve(cm, key.span.start), CodeMapEntry(key.span, 1))

\* The entries for the fragment m that began at byte start.
CodeMapFragment(cm, start, m) ==
    CASE m.v.tag = "Value" -> CodeMapClose(CodeMapReserve(cm, start), Len(cm), m.span.end)
      [] m.v.tag = "BeginArray" -> CodeMapReserve(cm, start)
      [] m.v.tag = "BeginObject" -> CodeMapKey(CodeMapReserve(cm, start), m.v.key)

\* Where the fragment the parser is about to read begins.
FragmentStart(p) == SkipWhitespaces(p).p.span.end

(***************************************************************************)
(* Value::parse_spanned (src/parse/value.rs): one action per turn of its   *)
(* loop, one for each arm of the match on stack.pop().                     *)
(***************************************************************************)
Item(tag, cont, span, key, at, entry_at) ==
    [tag |-> tag, cont |-> cont, span |-> span, key |-> key, at |-> at,
     entry_at |-> entry_at]

NoKey == Meta(<<>>, Span(0, 0))

StackContext(st, root) ==
    IF st = <<>> THEN root
    ELSE CASE st[Len(st)].tag \in {"Array", "ArrayItem"} -> "Array"
           [] st[Len(st)].tag = "Object" -> "ObjectKey"
           [] st[Len(st)].tag = "ObjectEntry" -> "ObjectValue"

Top == stack[Len(stack)]
Popped == SubSeq(stack, 1, Len(stack) - 1)

\* `?` and `break`: the function returns r and its locals are dropped.
Return(r) ==
    /\ result' = Some(r)
    /\ parser' = r.p
    /\ stack' = <<>>
    /\ value' = None

\* The item pushed for a container that begins with the fragment m, whose
\* code-map entry is at offset at.
BeginItem(m, at) ==
    IF m.v.tag = "BeginArray"
    THEN Item("ArrayItem", <<>>, m.span, NoKey, at, at)
    ELSE Item("ObjectEntry", ObjectNew, m.span, m.v.key, at, at + 1)

Running == ~result.some

\* The code map after the fragment r.val, read from the parser or taken
\* from value, in which case its entries are there already.
CodeMapAfter(r) ==
    IF value.some THEN code_map
    ELSE CodeMapFragment(code_map, FragmentStart(parser), r.val)

LoopRoot ==
    /\ Running /\ stack = <<>>
    /\ \E r \in {ValueOrParse(value, parser, StackContext(stack, context), options)} :
         IF ~r.ok THEN Return(r) /\ UNCHANGED code_map
         ELSE /\ code_map' = CodeMapAfter(r)
              /\ IF r.val.v.tag = "Value"
                 THEN Return(Ok(r.p, Meta(r.val.v.value, r.val.span)))
                 ELSE /\ stack' = <<BeginItem(r.val, Len(code_map))>>
                      /\ parser' = r.p
                      /\ value' = None
                      /\ UNCHANGED result
    /\ UNCHANGED <<entries, indexes, last, input, options, context, origin>>

\* The arm of ContinueFragment::End, for arrays and objects alike: r is the
\* closing delimiter and v the finished container.
LoopEnd(r, v) ==
    \E t \in {SkipTrailingWhitespaces(r.p, StackContext(Popped, context))} :
        IF ~t.ok THEN Return(t) /\ UNCHANGED code_map
        ELSE /\ value' = Some(Meta(v, SpanUnion(Top.span, r.val.span)))
             /\ stack' = Popped
             /\ parser' = t.p
             /\ code_map' = CodeMapClose(code_map, Top.at, r.val.span.end)
             /\ UNCHANGED result

LoopArray ==
    /\ Running /\ stack # <<>> /\ Top.tag = "Array"
    /\ \E r \in {ArrayContinue(parser)} :
         IF ~r.ok THEN Return(r) /\ UNCHANGED code_map
         ELSE IF r.val.v.tag = "Item"
         THEN /\ stack' = Append(Popped, [Top EXCEPT !.tag = "ArrayItem",
                                              !.span = SpanUnion(@, r.val.span)])
              /\ parser' = r.p
              /\ UNCHANGED <<value, code_map, result>>
         ELSE LoopEnd(r, VArray(Top.cont))
    /\ UNCHANGED <<entries, indexes, last, input, options, context, origin>>

\* The arms that put the container back in the state it has after a value.
LoopItemParentDone(r, done, cm) ==
    /\ stack' = IF r.val.v.tag = "Value" THEN Append(Popped, done)
                ELSE Popped \o <<[Top EXCEPT !.tag = IF @ = "ArrayItem" THEN "Array"
                                                     ELSE "Object",
                                             !.span = SpanUnion(@, r.val.span)],
                                 BeginItem(r.val, Len(code_map))>>
    /\ parser' = r.p
    /\ value' = None
    /\ code_map' = cm
    /\ UNCHANGED result

\* The arms that leave the container on the stack and push it once more.
LoopItemWithoutPop(r, done, cm) ==
    /\ stack' = IF r.val.v.tag = "Value" THEN Append(Popped, done)
                ELSE stack \o <<[Top EXCEPT !.span = SpanUnion(@, r.val.span)],
                                BeginItem(r.val, Len(code_map))>>
    /\ parser' = r.p
    /\ value' = None
    /\ code_map' = cm
    /\ UNCHANGED result

\* The arms that leave the pending value where it is.
LoopItemValueKept(r, done, cm) ==
    /\ stack' = IF r.val.v.tag = "Value" THEN Append(Popped, done)
                ELSE Popped \o <<[Top EXCEPT !.span = SpanUnion(@, r.val.span)],
                                 BeginItem(r.val, Len(code_map))>>
    /\ parser' = r.p
    /\ value' = value
    /\ code_map' = cm
    /\ UNCHANGED result

\* The arms that put the container back as it was when the value is the
\* pending one.
LoopItemPendingDropped(r, done, cm) ==
    /\ stack' = IF r.val.v.tag = "Value"
                THEN Append(Popped, IF value.some THEN [Top EXCEPT !.tag = done.tag]
                                    ELSE done)
                ELSE Popped \o <<[Top EXCEPT !.span = SpanUnion(@, r.val.span)],
                                 BeginItem(r.val, Len(code_map))>>
    /\ parser' = r.p
    /\ value' = None
    /\ code_map' = cm
    /\ UNCHANGED result

\* The three arms on a fragment in a container: a value goes into the
\* container (done is the item the container becomes), a beginning
\* container goes on the stack above it.
LoopItem(r, done, cm) ==
    /\ stack' = IF r.val.v.tag = "Value" THEN Append(Popped, done)
                ELSE Popped \o <<[Top EXCEPT !.span = SpanUnion(@, r.val.span)],
                                 BeginItem(r.val, Len(code_map))>>
    /\ parser' = r.p
    /\ value' = None
    /\ code_map' = cm
    /\ UNCHANGED result

LoopArrayItem ==
    /\ Running /\ stack # <<>> /\ Top.tag = "ArrayItem"
    /\ \E r \in {ValueOrParse(value, parser, "Array", options)} :
         IF ~r.ok THEN Return(r) /\ UNCHANGED code_map
         ELSE LoopItem(r, [Top EXCEPT !.tag = "Array",
                                      !.cont = Append(@, r.val.v.value),
                                      !.span = SpanUnion(@, r.val.span)],
                       CodeMapAfter(r))
    /\ UNCHANGED <<entries, indexes, last, input, options, context, origin>>

LoopObject ==
    /\ Running /\ stack # <<>> /\ Top.tag = "Object"
    /\ \E r \in {ObjectContinue(parser, options)} :
         IF ~r.ok THEN Return(r) /\ UNCHANGED code_map
         ELSE IF r.val.v.tag = "Entry"
         THEN /\ stack' = Append(Popped, [Top EXCEPT !.tag = "ObjectEntry",
                                              !.span = SpanUnion(@, r.val.span),
                                              !.key = r.val.v.key,
                                              !.entry_at = Len(code_map)])
              /\ parser' = r.p
              /\ code_map' = CodeMapKey(code_map, r.val.v.key)
              /\ UNCHANGED <<value, result>>
         ELSE LoopEnd(r, VObject(Top.cont))
    /\ UNCHANGED <<entries, indexes, last, input, options, context, origin>>

LoopObjectEntry ==
    /\ Running /\ stack # <<>> /\ Top.tag = "ObjectEntry"
    /\ \E r \in {ValueOrParse(value, parser, "ObjectValue", options)} :
         IF ~r.ok THEN Return(r) /\ UNCHANGED code_map
         ELSE LoopItem(r, [Top EXCEPT !.tag = "Object",
                                      !.cont = PushEntry(@, Entry(Top.key.v, r.val.v.value)).obj,
                                      !.span = SpanUnion(@, r.val.span)],
                       IF r.val.v.tag = "Value"
                       THEN CodeMapClose(CodeMapAfter(r), Top.entry_at, r.val.span.end)
                       ELSE CodeMapAfter(r))
    /\ UNCHANGED <<entries, indexes, last, input, options, context, origin>>

ParseNext == LoopRoot \/ LoopArray \/ LoopArrayItem \/ LoopObject \/ LoopObjectEntry
(***************************************************************************)
(* The printer (src/print/mod.rs).  The text printed is a sequence of      *)
(* characters; st is the record [out, index] of what is written so far and *)
(* of the index into the pre-computed sizes.                               *)
(***************************************************************************)
Limit(kind, items, width) == [kind |-> kind, items |-> items, width |-> width]

PrintOptions(indent, pad, after, limit) ==
    [indent |-> [kind |-> "Spaces", n |-> indent],
     array_begin |-> pad, array_end |-> pad, array_empty |-> 0,
     array_before_comma |-> 0, array_after_comma |-> after, array_limit |-> limit,
     object_begin |-> pad, object_end |-> pad, object_empty |-> 0,
     object_before_comma |-> 0, object_after_comma |-> after,
     object_before_colon |-> 0, object_after_colon |-> after, object_limit |-> limit]

Pretty == PrintOptions(2, 1, 1, Some(Limit("ItemOrWidth", 1, 16)))
Compact == PrintOptions(0, 0, 0, None)
Inline == PrintOptions(0, 1, 1, None)

Spaces(n) == [i \in 1..n |-> Ch.space]
IndentBy(ind, n) == [i \in 1..(ind.n * n) |-> IF ind.kind = "Spaces" THEN Ch.space ELSE Ch.tab]

SizeWidth(w) == [expanded |-> FALSE, width |-> w]
SizeExpanded == [expanded |-> TRUE, width |-> 0]
SizeAdd(a, b) ==
    IF ~a.expanded /\ ~b.expanded THEN SizeWidth(a.width + b.width) ELSE SizeExpanded

\* A digit taken as the character at that distance from '0'.
DigitFromZero(c) == Ch.zero + c

Digit(c) == IF c < 10 THEN Ch.zero + c ELSE Ch.a + (c - 10)

\* What string_literal writes for one character, without any escape.
LiteralCharRaw(c) == <<c>>

\* What string_literal writes for one character.
LiteralChar(c) ==
    IF c = Ch.backslash THEN <<Ch.backslash, Ch.backslash>>
    ELSE IF c = Ch.quote THEN <<Ch.backslash, Ch.quote>>
    ELSE IF c = Ch.bs THEN <<Ch.backslash, Ch.b>>
    ELSE IF c = Ch.tab THEN <<Ch.backslash, Ch.t>>
    ELSE IF c = Ch.lf THEN <<Ch.backslash, Ch.n>>
    ELSE IF c = Ch.ff THEN <<Ch.backslash, Ch.f>>
    ELSE IF c = Ch.cr THEN <<Ch.backslash, Ch.r>>
    ELSE IF c >= 0 /\ c <= U.control_last
    THEN <<Ch.backslash, Ch.u, Digit((c \div 4096) % 16), Digit((c \div 256) % 16),
           Digit((c \div 16) % 16), Digit(c % 16)>>
    ELSE <<c>>

RECURSIVE LiteralChars(_)
LiteralChars(s) == IF s = <<>> THEN <<>> ELSE LiteralChar(Head(s)) \o LiteralChars(Tail(s))

StringLiteral(s) == <<Ch.quote>> \o LiteralChars(s) \o <<Ch.quote>>

PrintedCharSize(c) ==
    IF c \in {Ch.backslash, Ch.quote, Ch.bs, Ch.tab, Ch.lf, Ch.ff, Ch.cr} THEN 2
    ELSE IF c >= 0 /\ c <= U.control_last THEN 6
    ELSE 1

RECURSIVE PrintedStringSizeFrom(_, _)
PrintedStringSizeFrom(s, width) ==
    IF s = <<>> THEN width
    ELSE PrintedStringSizeFrom(Tail(s), width + PrintedCharSize(Head(s)))

PrintedStringSize(s) == PrintedStringSizeFrom(s, 2)

\* The match on the limit at the end of the two pre_compute_*_size.
ApplyLimit(size, limit, len) ==
    IF size.expanded THEN SizeExpanded
    ELSE IF ~limit.some THEN size
    ELSE CASE limit.val.kind = "Always" -> SizeExpanded
           [] limit.val.kind = "Item" ->
                IF len > limit.val.items THEN SizeExpanded ELSE size
           [] limit.val.kind = "ItemOrWidth" ->
                IF len > limit.val.items \/ size.width > limit.val.width
                THEN SizeExpanded ELSE size
           [] limit.val.kind = "Width" ->
                IF size.width > limit.val.width THEN SizeExpanded ELSE size

RECURSIVE PreComputeSize(_, _, _), ArrayItemsSize(_, _, _, _, _),
          ObjectEntriesSize(_, _, _, _, _)

\* The loop of pre_compute_array_size, from item i on.
ArrayItemsSize(items, i, po, size, sizes) ==
    IF i >= Len(items) THEN [size |-> size, sizes |-> sizes]
    ELSE LET sep == IF i > 0
                    THEN SizeAdd(size, SizeWidth(1 + po.array_before_comma
                                                   + po.array_after_comma))
                    ELSE size
             r == PreComputeSize(At(items, i), po, sizes)
         IN ArrayItemsSize(items, i + 1, po, SizeAdd(sep, r.size), r.sizes)

PreComputeArraySize(items, po, sizes) ==
    LET index == Len(sizes)
        r == ArrayItemsSize(items, 0, po, SizeWidth(2 + po.object_begin + po.object_end),
                            Append(sizes, SizeWidth(0)))
        size == ApplyLimit(r.size, po.array_limit, Len(items))
    IN [size |-> size, sizes |-> [r.sizes EXCEPT ![index + 1] = size]]

\* The loop of pre_compute_object_size, from entry i on.
ObjectEntriesSize(es, i, po, size, sizes) ==
    IF i >= Len(es) THEN [size |-> size, sizes |-> sizes]
    ELSE LET sep == IF i > 0
                    THEN SizeAdd(size, SizeWidth(1 + po.object_before_comma
                                                   + po.object_after_comma))
                    ELSE size
             key == SizeAdd(sep, SizeWidth(PrintedStringSize(At(es, i).key) + 1
                                + po.object_before_colon + po.object_after_colon))
             r == PreComputeSize(At(es, i).value, po, sizes)
         IN ObjectEntriesSize(es, i + 1, po, SizeAdd(key, r.size), r.sizes)

PreComputeObjectSize(es, po, sizes) ==
    LET index == Len(sizes)
        r == ObjectEntriesSize(es, 0, po, SizeWidth(2 + po.object_begin + po.object_end),
                               Append(sizes, SizeWidth(0)))
        size == ApplyLimit(r.size, po.object_limit, Len(es))
    IN [size |-> size, sizes |-> [r.sizes EXCEPT ![index + 1] = size]]

PreComputeSize(v, po, sizes) ==
    CASE v.kind = "null" -> [size |-> SizeWidth(4), sizes |-> sizes]
      [] v.kind = "boolean" -> [size |-> SizeWidth(IF v.bool THEN 4 ELSE 5), sizes |-> sizes]
      [] v.kind = "number" -> [size |-> SizeWidth(Len(v.num)), sizes |-> sizes]
      [] v.kind = "string" -> [size |-> SizeWidth(PrintedStringSize(v.str)), sizes |-> sizes]
      [] v.kind = "array" -> PreComputeArraySize(v.items, po, sizes)
      [] v.kind = "object" -> PreComputeObjectSize(v.entries, po, sizes)
Write(st, s) == [st EXCEPT !.out = @ \o s]

Literal(v) ==
    CASE v.kind = "null" -> <<Ch.n, Ch.u, Ch.l, Ch.l>>
      [] v.kind = "boolean" ->
            IF v.bool THEN <<Ch.t, Ch.r, Ch.u, Ch.e>> ELSE <<Ch.f, Ch.a, Ch.l, Ch.s, Ch.e>>
      [] v.kind = "number" -> v.num
      [] v.kind = "string" -> StringLiteral(v.str)

RECURSIVE FmtWithSize(_, _, _, _, _), PrintArrayItems(_, _, _, _, _, _, _),
          PrintObjectEntries(_, _, _, _, _, _, _)

\* The two loops of print_array, from item i on.
PrintArrayItems(items, i, po, indent, sizes, expanded, st) ==
    IF i >= Len(items) THEN st
    ELSE LET sep == IF i = 0 THEN <<>>
                    ELSE IF expanded
                    THEN Spaces(po.array_before_comma) \o <<Ch.comma, Ch.lf>>
                    ELSE Spaces(po.array_before_comma) \o <<Ch.comma>>
                            \o Spaces(po.array_after_comma)
             lead == IF expanded THEN IndentBy(po.indent, indent + 1) ELSE <<>>
         IN PrintArrayItems(items, i + 1, po, indent, sizes, expanded,
                FmtWithSize(At(items, i), po, indent + 1, sizes, Write(st, sep \o lead)))

\* A print_array that reads its size and leaves the index where it is.
PrintArrayIndexKept(items, po, indent, sizes, st) ==
    LET size == At(sizes, st.index)
        open == [out |-> Append(st.out, Ch.lbracket), index |-> st.index,
                 read |-> Append(st.read, [index |-> st.index, of |-> VArray(items)])]
        body ==
            IF Len(items) = 0
            THEN IF size.expanded
                 THEN Write(open, <<Ch.lf>> \o IndentBy(po.indent, indent))
                 ELSE Write(open, Spaces(po.array_empty))
            ELSE IF size.expanded
            THEN Write(PrintArrayItems(items, 0, po, indent, sizes, TRUE,
                                       Write(open, <<Ch.lf>>)),
                       <<Ch.lf>> \o IndentBy(po.indent, indent))
            ELSE Write(PrintArrayItems(items, 0, po, indent, sizes, FALSE,
                                       Write(open, Spaces(po.array_begin))),
                       Spaces(po.array_end))
    IN Write(body, <<Ch.rbracket>>)

PrintArray(items, po, indent, sizes, st) ==
    LET size == At(sizes, st.index)
        open == [out |-> Append(st.out, Ch.lbracket), index |-> st.index + 1,
                 read |-> Append(st.read, [index |-> st.index, of |-> VArray(items)])]
        body ==
            IF Len(items) = 0
            THEN IF size.expanded
                 THEN Write(open, <<Ch.lf>> \o IndentBy(po.indent, indent))
                 ELSE Write(open, Spaces(po.array_empty))
            ELSE IF size.expanded
            THEN Write(PrintArrayItems(items, 0, po, indent, sizes, TRUE,
                                       Write(open, <<Ch.lf>>)),
                       <<Ch.lf>> \o IndentBy(po.indent, indent))
            ELSE Write(PrintArrayItems(items, 0, po, indent, sizes, FALSE,
                                       Write(open, Spaces(po.array_begin))),
                       Spaces(po.array_end))
    IN Write(body, <<Ch.rbracket>>)

\* The two loops of print_object, from entry i on.
PrintObjectEntries(es, i, po, indent, sizes, expanded, st) ==
    IF i >= Len(es) THEN st
    ELSE LET sep == IF i = 0 THEN <<>>
                    ELSE IF expanded
                    THEN Spaces(po.object_before_comma) \o <<Ch.comma, Ch.lf>>
                    ELSE Spaces(po.object_before_comma) \o <<Ch.comma>>
                            \o Spaces(po.object_after_comma)
             lead == IF expanded THEN IndentBy(po.indent, indent + 1) ELSE <<>>
             key == StringLiteral(At(es, i).key) \o Spaces(po.object_before_colon)
                        \o <<Ch.colon>> \o Spaces(po.object_after_colon)
         IN PrintObjectEntries(es, i + 1, po, indent, sizes, expanded,
                FmtWithSize(At(es, i).value, po, indent + 1, sizes,
                            Write(st, sep \o lead \o key)))

PrintObject(es, po, indent, sizes, st) ==
    LET size == At(sizes, st.index)
        open == [out |-> Append(st.out, Ch.lbrace), index |-> st.index + 1,
                 read |-> Append(st.read, [index |-> st.index,
                                           of |-> [kind |-> "object", entries |-> es]])]
        body ==
            IF Len(es) = 0
            THEN IF size.expanded
                 THEN Write(open, <<Ch.lf>> \o IndentBy(po.indent, indent))
                 ELSE Write(open, Spaces(po.object_empty))
            ELSE IF size.expanded
            THEN Write(PrintObjectEntries(es, 0, po, indent, sizes, TRUE,
                                          Write(open, <<Ch.lf>>)),
                       <<Ch.lf>> \o IndentBy(po.indent, indent))
            ELSE Write(PrintObjectEntries(es, 0, po, indent, sizes, FALSE,
                                          Write(open, Spaces(po.object_begin))),
                       Spaces(po.object_end))
    IN Write(body, <<Ch.rbrace>>)

\* <Value as PrintWithSize>::fmt_with_size
FmtWithSize(v, po, indent, sizes, st) ==
    CASE v.kind = "array" -> PrintArray(v.items, po, indent, sizes, st)
      [] v.kind = "object" -> PrintObject(v.entries, po, indent, sizes, st)
      [] OTHER -> Write(st, Literal(v))

\* <Value as Print>::fmt_with, from Printed(value, options, 0): the text
\* written, the final index and, in `read`, each index at which sizes was
\* read with the container it was read for.
Emission(v, po) ==
    FmtWithSize(v, po, 0, PreComputeSize(v, po, <<>>).sizes,
                [out |-> <<>>, index |-> 0, read |-> <<>>])

PrintValue(v, po) == Emission(v, po).out
(***************************************************************************)
(* The documents the parser is run on.  An origin says how a document is   *)
(* made: typed as it is, printed from a value, or printed and then         *)
(* damaged.                                                                *)
(***************************************************************************)
MaxDocLen == 4
MaxItems == 2
MaxInnerItems == 1

SeqsUpTo(S, n) == UNION {[1..k -> S] : k \in 0..n}
Arrays(S, n) == {VArray(s) : s \in SeqsUpTo(S, n)}
Objects(S, n) ==
    {VObject(ObjectFromVec(es)) : es \in SeqsUpTo({Entry(k, v) : k \in Keys, v \in S}, n)}

DocLeaves == {VNumber(<<Ch.one>>), VNumber(<<Ch.one + 1>>), VNull}
DocInner == Arrays(ObjValues, MaxInnerItems) \cup Objects(ObjValues, MaxInnerItems)
DocItems == DocLeaves \cup {VArray(<<VNull>>), VObject(ObjectFromVec(<<Entry(KeyA, VNull)>>))}
DocDeep ==
    UNION {{VArray(<<VArray(<<x>>)>>),
            VObject(ObjectFromVec(<<Entry(KeyA, VArray(<<x, VNull>>))>>)),
            VArray(<<VObject(ObjectFromVec(<<Entry(KeyB, x), Entry(KeyB, x)>>))>>)} :
           x \in DocInner}
DocValues ==
    DocLeaves \cup DocInner \cup DocDeep
        \cup Arrays(DocItems, MaxItems)
        \cup Objects(DocItems, MaxItems)

Presets == {"pretty", "compact", "inline"}
PresetOptions(name) ==
    CASE name = "pretty" -> Pretty [] name = "compact" -> Compact [] name = "inline" -> Inline

DocAlphabet == {Ch.lbracket, Ch.rbracket, Ch.lbrace, Ch.rbrace, Ch.comma, Ch.colon,
                Ch.quote, Ch.one, Ch.space}

\* What may stand in front of a value, or in the place of one.
Blanks == {<<>>, <<Ch.space>>, <<Ch.tab>>, <<Ch.lf>>, <<Ch.cr>>, <<Ch.ff>>, <<Ch.vt>>,
           <<Ch.wj>>, <<Ch.bom>>, <<Ch.space, Ch.lf, Ch.ff>>, <<Ch.cr, Ch.tab, Ch.bom>>}
\* What may stand after a value.
Followers == {Ch.comma, Ch.rbracket, Ch.rbrace, Ch.colon, Ch.quote, Ch.lbracket,
              Ch.lbrace, Ch.a, Ch.n, Ch.ff, StreamErr}
FollowValues == {VNull, VBoolean(TRUE), VBoolean(FALSE), VNumber(<<Ch.one>>),
                 VString(<<Ch.a>>), VArray(<<>>), VArray(<<VNull>>),
                 VObject(ObjectFromVec(<<Entry(KeyA, VNull)>>))}
Places == {"None", "Array", "ObjectKey", "ObjectValue"}

MutBase == DocLeaves \cup DocInner \cup DocDeep

Origins ==
    {[kind |-> "typed", text |-> s] : s \in SeqsUpTo(DocAlphabet, MaxDocLen)}
    \cup {[kind |-> "printed", val |-> v, preset |-> p] : v \in DocValues, p \in Presets}
    \cup {[kind |-> "blank", blank |-> b, place |-> pl, val |-> v] :
            b \in Blanks, pl \in Places \ {"ObjectKey"}, v \in {VNull, VArray(<<>>)}}
    \cup {[kind |-> "blank", blank |-> b, place |-> pl, val |-> VString(<<>>)] :
            b \in Blanks, pl \in Places \ {"ObjectKey"}}
    \cup {[kind |-> "follow", val |-> v, place |-> pl, gap |-> g, c |-> c] :
            v \in FollowValues, pl \in Places, g \in {<<>>, <<Ch.space, Ch.lf>>},
            c \in Followers}
    \cup {[kind |-> "cut", val |-> v, at |-> i, c |-> c] :
            v \in MutBase, i \in 1..(3 * MaxItems + 6), c \in {StreamErr, Ch.rbracket, Ch.del}}

\* The text of a value put in a place: at the top, as the item of an array,
\* as the value of an entry, and (a string only) as the key of an entry.
InPlace(place, before, text, after) ==
    CASE place = "None" -> before \o text \o after
      [] place = "Array" -> <<Ch.lbracket>> \o before \o text \o after \o <<Ch.rbracket>>
      [] place = "ObjectValue" ->
            <<Ch.lbrace, Ch.quote, Ch.a, Ch.quote, Ch.colon>> \o before \o text \o after
                \o <<Ch.rbrace>>
      [] place = "ObjectKey" ->
            <<Ch.lbrace>> \o before \o <<Ch.quote, Ch.a, Ch.quote>> \o after
                \o <<Ch.one, Ch.rbrace>>

\* What is written before a value in a place, and what is written after the
\* character c that follows the value: after a comma one more item or entry,
\* then the closing delimiter unless c is that delimiter.
Opening(place) ==
    CASE place = "None" -> <<>>
      [] place = "Array" -> <<Ch.lbracket>>
      [] place = "ObjectValue" -> <<Ch.lbrace, Ch.quote, Ch.a, Ch.quote, Ch.colon>>
      [] place = "ObjectKey" -> <<Ch.lbrace>>

Completion(place, c) ==
    CASE place = "None" -> <<>>
      [] place = "Array" ->
            IF c = Ch.comma THEN <<Ch.one, Ch.rbracket>>
            ELSE IF c = Ch.rbracket THEN <<>> ELSE <<Ch.rbracket>>
      [] place = "ObjectValue" ->
            IF c = Ch.comma THEN <<Ch.quote, Ch.b, Ch.quote, Ch.colon, Ch.one, Ch.rbrace>>
            ELSE IF c = Ch.rbrace THEN <<>> ELSE <<Ch.rbrace>>
      [] place = "ObjectKey" -> <<Ch.one, Ch.rbrace>>

\* The text before the character that follows the value of a "follow" origin.
FollowPrefix(o) ==
    Opening(o.place)
        \o (IF o.place = "ObjectKey" THEN <<Ch.quote, Ch.a, Ch.quote>>
            ELSE PrintValue(o.val, Compact))
        \o o.gap

InputOf(o) ==
    CASE o.kind = "typed" -> o.text
      [] o.kind = "printed" -> PrintValue(o.val, PresetOptions(o.preset))
      [] o.kind = "blank" ->
            InPlace(o.place, o.blank,
                    IF o.val.kind = "string" THEN <<>> ELSE PrintValue(o.val, Compact), <<>>)
      [] o.kind = "follow" ->
            FollowPrefix(o) \o <<o.c>> \o Completion(o.place, o.c)
      [] o.kind = "cut" ->
            LET d == PrintValue(o.val, Compact)
            IN IF o.at > Len(d) THEN d
               ELSE IF o.c = Ch.del THEN SubSeq(d, 1, o.at - 1)
               ELSE [d EXCEPT ![o.at] = o.c]

ParseInit(origins) ==
    /\ ObjIdle
    /\ origin \in origins
    /\ input = InputOf(origin)
    /\ context = "None"
    /\ options = [accept_truncated_surrogate_pair |-> FALSE,
                  accept_invalid_codepoints |-> FALSE]
    /\ parser = ParserNew(input)
    /\ stack = <<>>
    /\ value = None
    /\ code_map = <<>>
    /\ result = None

SpecParse == ParseInit(Origins) /\ [][ParseNext]_vars
(***************************************************************************)
(* Views of the end of a parse.                                            *)
(***************************************************************************)
Accepted == result.some /\ result.val.ok
Rejected == result.some /\ ~result.val.ok
Parsed == result.val.val.v

RECURSIVE ByteLen(_)
ByteLen(s) == IF s = <<>> THEN 0 ELSE Utf8Len(Head(s)) + ByteLen(Tail(s))

\* The values of the entries with key k, in the order of the sequence es.
RECURSIVE ValuesOf(_, _)
ValuesOf(es, k) ==
    IF es = <<>> THEN <<>>
    ELSE (IF Head(es).key = k THEN <<Head(es).value>> ELSE <<>>) \o ValuesOf(Tail(es), k)

\* The objects in v, v included.
RECURSIVE ObjectsIn(_)
ObjectsIn(v) ==
    CASE v.kind = "array" -> UNION {ObjectsIn(v.items[i]) : i \in 1..Len(v.items)}
      [] v.kind = "object" ->
            {v} \cup UNION {ObjectsIn(v.entries[i].value) : i \in 1..Len(v.entries)}
      [] OTHER -> {}

\* The number of colons of a text that stand outside a string literal: the
\* number of key: value pairs written in a printed document.
RECURSIVE PairsWritten(_, _)
PairsWritten(text, quoted) ==
    IF text = <<>> THEN 0
    ELSE IF Head(text) = Ch.quote THEN PairsWritten(Tail(text), ~quoted)
    ELSE (IF Head(text) = Ch.colon /\ ~quoted THEN 1 ELSE 0) + PairsWritten(Tail(text), quoted)

\* The number of entries of the objects in v, and in the values vs.
RECURSIVE EntryCount(_), EntryCountAll(_)
EntryCount(v) ==
    CASE v.kind = "array" -> EntryCountAll(v.items)
      [] v.kind = "object" ->
            Len(v.entries) + EntryCountAll([i \in 1..Len(v.entries) |-> v.entries[i].value])
      [] OTHER -> 0
EntryCountAll(vs) == IF vs = <<>> THEN 0 ELSE EntryCount(Head(vs)) + EntryCountAll(Tail(vs))

(***************************************************************************)
(* C2: parsing an object literal keeps every entry, entries of a repeated  *)
(* key included, in source order.  For a document printed from a value,    *)
(* the parser accepts it and returns that value, so every object has the   *)
(* entries written, in the order written; the entries of all the objects   *)
(* are as many as the pairs written in the text; and in every object       *)
(* get(k) yields the values of the entries with key k in entry order.      *)
(***************************************************************************)
C2_DuplicatesKept ==
    (origin.kind = "printed" /\ result.some) =>
        /\ Accepted
        /\ Parsed = origin.val
        /\ EntryCount(Parsed) = PairsWritten(input, FALSE)
        /\ \A o \in ObjectsIn(Parsed) : \A k \in Keys :
              Get(o, k) = ValuesOf(o.entries, k)

\* {"a":1,"a":2} is parsed to an object of length 2 where get("a") yields 1, 2.
C2_Witness ==
    /\ input = <<Ch.lbrace, Ch.quote, Ch.a, Ch.quote, Ch.colon, Ch.one, Ch.comma,
                 Ch.quote, Ch.a, Ch.quote, Ch.colon, Ch.one + 1, Ch.rbrace>>
    /\ Accepted
    /\ Parsed.kind = "object"
    /\ Len(Parsed.entries) = 2
    /\ Get(Parsed, KeyA) = <<VNumber(<<Ch.one>>), VNumber(<<Ch.one + 1>>)>>

(***************************************************************************)
(* C5: after a complete value, JSON whitespace aside, the next character   *)
(* must be one its context allows: nothing but the end of input at the     *)
(* top level, a comma or ] after an array item, a comma or } after the     *)
(* value of an entry, a colon after a key.  An accepted document is read   *)
(* to its end; where the loop goes on after a value in a container, the    *)
(* next character, if there is one, is a comma or the closing delimiter of *)
(* the container; and a value followed by the character c in a place is accepted exactly  *)
(* when the place allows c, and is otherwise rejected at c, as an          *)
(* unexpected c (or as the stream error that c is).                        *)
(***************************************************************************)
JsonFollow(place) ==
    CASE place = "None" -> {}
      [] place = "Array" -> {Ch.comma, Ch.rbracket}
      [] place = "ObjectValue" -> {Ch.comma, Ch.rbrace}
      [] place = "ObjectKey" -> {Ch.colon}

\* The loop holds a complete value of the container on top of the stack.
AfterValueIn(tags) ==
    /\ ~result.some /\ stack # <<>>
    /\ \/ Top.tag = tags[1]
       \/ Top.tag = tags[2] /\ value.some

RejectedAt(c, before) ==
    /\ Rejected
    /\ result.val.err = (IF c = StreamErr THEN ErrorStream ELSE Unexpected(Some(c)))
    /\ Len(Consumed) \in {before, before + 1}

C5_FollowSet ==
    /\ Accepted => parser.chars = <<>>
    /\ AfterValueIn(<<"Array", "ArrayItem">>) =>
          parser.chars = <<>> \/ Head(parser.chars) \in JsonFollow("Array")
    /\ AfterValueIn(<<"Object", "ObjectEntry">>) =>
          parser.chars = <<>> \/ Head(parser.chars) \in JsonFollow("ObjectValue")
    /\ (origin.kind = "follow" /\ result.some) =>
          IF origin.c \in JsonFollow(origin.place) THEN Accepted
          ELSE RejectedAt(origin.c, Len(FollowPrefix(origin)))

\* The document []] is rejected at its second closing bracket.
C5_Witness ==
    /\ input = <<Ch.lbracket, Ch.rbracket, Ch.rbracket>>
    /\ origin.kind = "follow" /\ origin.place = "None"
    /\ Rejected
    /\ result.val.err = Unexpected(Some(Ch.rbracket))
    /\ parser.chars = <<Ch.rbracket>>

(***************************************************************************)
(* Fragments and their traversal (src/lib.rs): a fragment is a value, an   *)
(* object entry or an object key.                                          *)
(***************************************************************************)
FragmentRefValue(v) == [tag |-> "Value", value |-> v]
FragmentRefEntry(e) == [tag |-> "Entry", entry |-> e]
FragmentRefKey(k) == [tag |-> "Key", key |-> k]

SubFragments(f) ==
    CASE f.tag = "Value" /\ f.value.kind = "array" ->
            [i \in 1..Len(f.value.items) |-> FragmentRefValue(f.value.items[i])]
      [] f.tag = "Value" /\ f.value.kind = "object" ->
            [i \in 1..Len(f.value.entries) |-> FragmentRefEntry(f.value.entries[i])]
      [] f.tag = "Entry" -> <<FragmentRefKey(f.entry.key), FragmentRefValue(f.entry.value)>>
      [] OTHER -> <<>>

\* Traverse::next until the stack is empty: the fragments yielded.
RECURSIVE TraverseNext(_)
TraverseNext(st) ==
    IF st = <<>> THEN <<>>
    ELSE <<st[Len(st)]>>
            \o TraverseNext(SubSeq(st, 1, Len(st) - 1) \o SubFragments(st[Len(st)]))

Traverse(v) == TraverseNext(<<FragmentRefValue(v)>>)

(***************************************************************************)
(* C6: for every successful parse the code map has one entry per fragment  *)
(* in depth-first pre-order, the root first, as many as traverse() yields; *)
(* the volume of an entry is 1 for a scalar or a key, 1 plus the volumes   *)
(* of the items for an array, 2 plus the volume of the value for an object *)
(* entry, 1 plus the volumes of the entries for an object; and the         *)
(* fragments at the offsets k .. k+v-1 are the fragment at offset k, of    *)
(* volume v, followed by its descendants.                                  *)
(***************************************************************************)
RECURSIVE PreOrder(_), PreOrderAll(_)
PreOrder(f) == <<f>> \o PreOrderAll(SubFragments(f))
PreOrderAll(fs) == IF fs = <<>> THEN <<>> ELSE PreOrder(Head(fs)) \o PreOrderAll(Tail(fs))

RECURSIVE StatedVolume(_), StatedVolumes(_)
StatedVolume(f) ==
    CASE f.tag = "Key" -> 1
      [] f.tag = "Entry" -> 2 + StatedVolume(FragmentRefValue(f.entry.value))
      [] f.tag = "Value" -> 1 + StatedVolumes(SubFragments(f))
StatedVolumes(fs) ==
    IF fs = <<>> THEN 0 ELSE StatedVolume(Head(fs)) + StatedVolumes(Tail(fs))

Fragments == PreOrder(FragmentRefValue(Parsed))

C6_CodeMapVolumes ==
    Accepted =>
        /\ Len(code_map) = Len(Traverse(Parsed))
        /\ Len(code_map) = Len(Fragments)
        /\ \A k \in 1..Len(code_map) :
              /\ code_map[k].volume = StatedVolume(Fragments[k])
              /\ k + code_map[k].volume - 1 <= Len(code_map)
              /\ SubSeq(Fragments, k, k + code_map[k].volume - 1) = PreOrder(Fragments[k])

\* A parsed array in an array in an array: three entries of volumes 3, 2, 1
\* or more, and a parsed object with two entries.
C6_Witness ==
    /\ Accepted
    /\ Len(code_map) >= 7
    /\ code_map[1].volume = Len(code_map)
    /\ \E k \in 2..Len(code_map) :
          /\ Fragments[k].tag = "Entry" /\ code_map[k].volume > 3
          /\ k + code_map[k].volume <= Len(code_map)

(***************************************************************************)
(* C7: for every successful parse every span of the code map is a byte     *)
(* range with start <= end <= length of the source; the span of a fragment *)
(* contains the spans of its descendants; the span of an entry runs from   *)
(* the first byte of its key to the last byte of its value; and the bytes  *)
(* of a span are the text of its fragment: a number's digits, a literal's  *)
(* name, a string or key between its quotes, a container between its       *)
(* delimiters.                                                             *)
(***************************************************************************)
RECURSIVE ByteSlice(_, _, _, _)
ByteSlice(text, at, start, end) ==
    IF text = <<>> THEN <<>>
    ELSE (IF start <= at /\ at < end THEN <<Head(text)>> ELSE <<>>)
            \o ByteSlice(Tail(text), at + Utf8Len(Head(text)), start, end)

Enclosed(text, open, close) ==
    Len(text) >= 2 /\ text[1] = open /\ text[Len(text)] = close

IsTextOf(text, f) ==
    CASE f.tag = "Key" -> Enclosed(text, Ch.quote, Ch.quote)
      [] f.tag = "Entry" -> Len(text) >= 4 /\ text[1] = Ch.quote
      [] f.tag = "Value" ->
            CASE f.value.kind = "null" -> text = <<Ch.n, Ch.u, Ch.l, Ch.l>>
              [] f.value.kind = "boolean" ->
                    text = IF f.value.bool THEN <<Ch.t, Ch.r, Ch.u, Ch.e>>
                           ELSE <<Ch.f, Ch.a, Ch.l, Ch.s, Ch.e>>
              [] f.value.kind = "number" -> text = f.value.num
              [] f.value.kind = "string" -> Enclosed(text, Ch.quote, Ch.quote)
              [] f.value.kind = "array" -> Enclosed(text, Ch.lbracket, Ch.rbracket)
              [] f.value.kind = "object" -> Enclosed(text, Ch.lbrace, Ch.rbrace)

C7_CodeMapSpans ==
    Accepted =>
        \A k \in 1..Len(code_map) :
            /\ 0 <= code_map[k].span.start
            /\ code_map[k].span.start <= code_map[k].span.end
            /\ code_map[k].span.end <= ByteLen(input)
            /\ \A j \in (k + 1)..(k + code_map[k].volume - 1) :
                  /\ j <= Len(code_map)
                  /\ code_map[k].span.start <= code_map[j].span.start
                  /\ code_map[j].span.end <= code_map[k].span.end
            /\ Fragments[k].tag = "Entry" =>
                  /\ code_map[k].span.start = code_map[k + 1].span.start
                  /\ code_map[k].span.end = code_map[k + 2].span.end
            /\ IsTextOf(ByteSlice(input, 0, code_map[k].span.start, code_map[k].span.end),
                        Fragments[k])

\* A parsed document with whitespace in it and an entry whose value is an
\* array: the entry's span begins after the { and ends before the }.
C7_Witness ==
    /\ Accepted
    /\ \E i \in 1..Len(input) : input[i] = Ch.space
    /\ \E k \in 2..Len(code_map) :
          /\ Fragments[k].tag = "Entry"
          /\ Fragments[k].entry.value.kind = "array"
          /\ code_map[k].span.start > code_map[1].span.start
          /\ code_map[k].span.end < code_map[1].span.end
          /\ code_map[k + 2].volume > 1

(***************************************************************************)
(* C9: parse errors are terminal.  No step is taken once the parse has a   *)
(* result, and the step that ends the parse in an error leaves this: the   *)
(* result is the error and its position, no value; nothing is left of the  *)
(* stack or of the value in hand; an unexpected character is the last one  *)
(* consumed or the next one, and an unexpected end is at the end; no       *)
(* failure of the stream was passed before the error; a failure of the     *)
(* stream is the last item consumed and is reported as Error::Stream at    *)
(* the byte offset reached before it; and the first failure of the stream  *)
(* written into a document is the error reported.  A parse is accepted     *)
(* only if the stream never failed.                                        *)
(***************************************************************************)
InRange(x, s) == \E i \in 1..Len(s) : s[i] = x

ErrorShape ==
    LET e == result.val.err
        before == SubSeq(Consumed, 1, Len(Consumed) - 1)
    IN /\ DOMAIN result.val = {"ok", "p", "err", "at"}
       /\ stack = <<>> /\ value = None
       /\ parser = result.val.p
       /\ ~InRange(StreamErr, before)
       /\ e.kind = "Unexpected" =>
             /\ ~InRange(StreamErr, Consumed)
             /\ IF e.c.some
                THEN \/ Consumed # <<>> /\ Consumed[Len(Consumed)] = e.c.val
                     \/ parser.chars # <<>> /\ Head(parser.chars) = e.c.val
                ELSE parser.chars = <<>>
       /\ e.kind = "Stream" =>
             /\ Consumed # <<>> /\ Consumed[Len(Consumed)] = StreamErr
             /\ result.val.at = Span(ByteLen(before), ByteLen(before))
       /\ (origin.kind = "cut" /\ origin.c = StreamErr /\ InRange(StreamErr, input)) =>
             e.kind = "Stream" /\ Len(Consumed) = origin.at

C9_ErrorsTerminal ==
    [][/\ ~result.some
       /\ Rejected' => ErrorShape'
       /\ Accepted' => ~InRange(StreamErr, input)]_vars

\* The stream fails inside a nested container, with more input behind.
C9_Witness ==
    /\ Rejected
    /\ result.val.err = ErrorStream
    /\ origin.kind = "cut" /\ origin.at >= 5
    /\ result.val.at.start >= 4
    /\ parser.chars # <<>>

(***************************************************************************)
(* C10: where a value is expected the parser skips space, tab, line feed   *)
(* and carriage return, nothing else, and looks at the next character: n,  *)
(* t, f, a digit, -, ", [ or { begin a value and are consumed; at any      *)
(* other character the step ends the parse with Unexpected(that            *)
(* character), the whitespace before it consumed and the character not;    *)
(* at the end of input it ends the parse with Unexpected(None).  A value   *)
(* the step accepts is of the kind its first character begins, and a       *)
(* container the step opens is the one its first character opens.          *)
(***************************************************************************)
JsonWhitespace == {32, 9, 10, 13}
ValueStarts == {Ch.n, Ch.t, Ch.f, Ch.minus, Ch.quote, Ch.lbracket, Ch.lbrace} \cup (48..57)

KindBegunBy(c) ==
    CASE c = Ch.n -> "null"
      [] c \in {Ch.t, Ch.f} -> "boolean"
      [] c = Ch.quote -> "string"
      [] c = Ch.lbracket -> "array"
      [] c = Ch.lbrace -> "object"
      [] OTHER -> "number"

RECURSIVE AfterJsonWhitespace(_)
AfterJsonWhitespace(text) ==
    IF text # <<>> /\ Head(text) \in JsonWhitespace THEN AfterJsonWhitespace(Tail(text))
    ELSE text

\* The loop is about to read a value: at the top, as an item, as an entry's.
ValueExpected ==
    /\ ~result.some /\ ~value.some
    /\ stack = <<>> \/ Top.tag \in {"ArrayItem", "ObjectEntry"}

C10_ValueDispatch ==
    [][ValueExpected =>
        LET rest == AfterJsonWhitespace(parser.chars)
        IN IF rest = <<>>
           THEN Rejected' /\ result'.val.err = Unexpected(None) /\ parser'.chars = <<>>
           ELSE IF Head(rest) = StreamErr
           THEN Rejected' /\ result'.val.err = ErrorStream /\ parser'.chars = Tail(rest)
           ELSE IF Head(rest) \notin ValueStarts
           THEN Rejected' /\ result'.val.err = Unexpected(Some(Head(rest)))
                /\ parser'.chars = rest
           ELSE /\ Len(parser'.chars) < Len(rest)
                /\ Accepted' => result'.val.val.v.kind = KindBegunBy(Head(rest))
                /\ Len(stack') > Len(stack) =>
                      stack'[Len(stack')].tag =
                          (IF Head(rest) = Ch.lbracket THEN "ArrayItem" ELSE "ObjectEntry")
                      /\ Head(rest) \in {Ch.lbracket, Ch.lbrace}]_vars

\* A form feed after JSON whitespace, where the item of an array is
\* expected, is rejected with the whitespace consumed and nothing more.
C10_Witness ==
    /\ origin.kind = "blank" /\ origin.place = "Array"
    /\ origin.blank = <<Ch.space, Ch.lf, Ch.ff>>
    /\ Rejected
    /\ result.val.err = Unexpected(Some(Ch.ff))
    /\ Len(Consumed) = 3

(***************************************************************************)
(* The values of the round trip: strings and keys of the characters the    *)
(* printer escapes and of characters it writes as they are, numbers of     *)
(* every form, and containers of them, printed with each preset and parsed *)
(* with the default options.                                               *)
(***************************************************************************)
MaxStrLen == 2

RtChars == {Ch.quote, Ch.backslash, Ch.slash, Ch.bs, Ch.tab, Ch.lf, Ch.ff, Ch.cr, Ch.nul,
            Ch.esc, Ch.us, Ch.space, Ch.u, Ch.del, Ch.eacute, Ch.ls, Ch.emoji}
RtNumbers == {<<Ch.zero>>, <<Ch.minus, Ch.zero>>, <<Ch.one, Ch.dot, Ch.five>>,
              <<Ch.one, Ch.E, Ch.minus, Ch.nine>>, <<Ch.nine, Ch.e, Ch.plus, Ch.zero>>}
RtScalars ==
    {VNull, VBoolean(TRUE), VBoolean(FALSE)}
        \cup {VNumber(n) : n \in RtNumbers}
        \cup {VString(s) : s \in SeqsUpTo(RtChars, MaxStrLen)}
RtKeys == {<<>>, <<Ch.backslash, Ch.lf>>, <<Ch.eacute, Ch.us>>}
RtItems == {VBoolean(FALSE), VNumber(<<Ch.minus, Ch.zero>>),
            VString(<<Ch.quote, Ch.emoji>>), VString(<<Ch.esc>>)}
RtObject(es) == VObject(ObjectFromVec(es))
RtFlat ==
    Arrays(RtItems, MaxItems)
        \cup {RtObject(es) : es \in SeqsUpTo({Entry(k, v) : k \in RtKeys, v \in RtItems}, MaxItems)}
RtNested ==
    UNION {{VArray(<<x, VArray(<<y>>), RtObject(<<Entry(k, x)>>)>>),
            RtObject(<<Entry(k, RtObject(<<Entry(k, y), Entry(k, x)>>)),
                       Entry(k, VArray(<<x, y>>))>>)} :
           x \in RtItems, y \in RtItems, k \in RtKeys}
RoundTripValues == RtScalars \cup RtFlat \cup RtNested \cup DocValues

SpecRoundTrip ==
    ParseInit({[kind |-> "printed", val |-> v, preset |-> p] :
                 v \in RoundTripValues, p \in Presets})
        /\ [][ParseNext]_vars

(***************************************************************************)
(* C8: the text printed from a value with the compact, the inline or the   *)
(* pretty options is accepted by the strict parser, and the value parsed   *)
(* is the value printed: the same strings, keys, numbers and nesting, the  *)
(* same entries in the same order, repeated keys included.                 *)
(***************************************************************************)
C8_PrintParseRoundTrip ==
    /\ result.some =>
          /\ Accepted
          /\ Parsed = origin.val
          /\ input = PrintValue(Parsed, PresetOptions(origin.preset))

\* An object of two entries with the same key, printed on several lines
\* with an escaped quote in a string, is parsed back.
C8_Witness ==
    /\ Accepted
    /\ origin.preset = "pretty"
    /\ InRange(Ch.lf, input)
    /\ Parsed = origin.val
    /\ Parsed.kind = "object"
    /\ Len(Parsed.entries) = 2
    /\ Parsed.entries[1].key = <<Ch.backslash, Ch.lf>>
    /\ Parsed.entries[2].key = <<Ch.backslash, Ch.lf>>
    /\ Parsed.entries[1].value = VString(<<Ch.quote, Ch.emoji>>)
    /\ Parsed.entries[2].value = VString(<<Ch.esc>>)

(***************************************************************************)
(* The string parser on its own: string literals put together from tokens  *)
(* (raw characters, escapes, \u escapes of every kind), closed by a quote   *)
(* or cut before it, parsed with each setting of the two options.          *)
(***************************************************************************)
MaxTokens == 3

Strict == [accept_truncated_surrogate_pair |-> FALSE, accept_invalid_codepoints |-> FALSE]
Flexible == [accept_truncated_surrogate_pair |-> TRUE, accept_invalid_codepoints |-> TRUE]
AllOptions == [accept_truncated_surrogate_pair : BOOLEAN, accept_invalid_codepoints : BOOLEAN]

TokRaw(c) == [kind |-> "raw", c |-> c]
TokEsc(c) == [kind |-> "esc", c |-> c]
TokU(cp, upper) == [kind |-> "u", cp |-> cp, upper |-> upper]
TokBadU == [kind |-> "badu"]

Tokens ==
    {TokRaw(Ch.a), TokRaw(1), TokEsc(Ch.n), TokEsc(120),
     TokU(55296, TRUE), TokU(55348, TRUE), TokU(56319, FALSE),
     TokU(56320, FALSE), TokU(56606, TRUE), TokU(57343, TRUE),
     TokU(65, FALSE), TokBadU}

\* The hexadecimal digit d as a character, and the four digits of cp.
HexDigitChar(d, upper) == IF d < 10 THEN 48 + d ELSE (IF upper THEN 55 ELSE 87) + d
Hex4Text(cp, upper) ==
    <<HexDigitChar(cp \div 4096, upper), HexDigitChar((cp \div 256) % 16, upper),
      HexDigitChar((cp \div 16) % 16, upper), HexDigitChar(cp % 16, upper)>>

TokText(t) ==
    CASE t.kind = "raw" -> <<t.c>>
      [] t.kind = "esc" -> <<Ch.backslash, t.c>>
      [] t.kind = "u" -> <<Ch.backslash, Ch.u>> \o Hex4Text(t.cp, t.upper)
      [] t.kind = "badu" -> <<Ch.backslash, Ch.u, 68, 56, 71, 48>>

RECURSIVE TokensText(_)
TokensText(ts) == IF ts = <<>> THEN <<>> ELSE TokText(Head(ts)) \o TokensText(Tail(ts))

StringText(ts, closed) ==
    <<Ch.quote>> \o TokensText(ts) \o (IF closed THEN <<Ch.quote>> ELSE <<>>)

StringInit ==
    /\ ObjIdle
    /\ origin \in {[kind |-> "string", tokens |-> ts, closed |-> c] :
                     ts \in SeqsUpTo(Tokens, MaxTokens), c \in BOOLEAN}
    /\ input = StringText(origin.tokens, origin.closed)
    /\ context = "None"
    /\ options \in AllOptions
    /\ parser = ParserNew(input)
    /\ stack = <<>>
    /\ value = None
    /\ code_map = <<>>
    /\ result = None

ParseString ==
    /\ ~result.some
    /\ \E r \in {StringParse(parser, options)} :
          /\ result' = Some(r)
          /\ parser' = r.p
    /\ UNCHANGED <<entries, indexes, last, input, options, context, stack, value,
                   code_map, origin>>

StringNext == ParseString

SpecString == StringInit /\ [][StringNext]_vars

\* What the string parser returns for the closed literal of the tokens ts.
ParsedTokens(ts, opts) == StringParse(ParserNew(StringText(ts, TRUE)), opts)

IsHighU(t) == t.kind = "u" /\ t.cp >= 55296 /\ t.cp <= 56319
IsLowU(t) == t.kind = "u" /\ t.cp >= 56320 /\ t.cp <= 57343
FrontTokens(ts, n) == SubSeq(ts, 1, Len(ts) - n)

(***************************************************************************)
(* C11: a \u escape of a high surrogate immediately followed by a \u       *)
(* escape of a low surrogate decodes, in strict and in flexible mode, to   *)
(* the one character ((high - D800) * 2^10 + (low - DC00)) + 10000 (hex),  *)
(* which lies in 10000..10FFFF, and raises no error: where the tokens in   *)
(* front of the pair make a string, the tokens with the pair make that     *)
(* string with the character appended.                                     *)
(***************************************************************************)
PairChar(high, low) == (high - 55296) * 1024 + (low - 56320) + 65536

C11_SurrogatePair ==
    LET ts == origin.tokens
        n == Len(ts)
    IN (/\ result.some /\ origin.closed /\ options \in {Strict, Flexible}
        /\ n >= 2 /\ IsHighU(ts[n - 1]) /\ IsLowU(ts[n])
        /\ ParsedTokens(FrontTokens(ts, 2), options).ok) =>
           /\ result.val.ok
           /\ result.val.val.v = Append(ParsedTokens(FrontTokens(ts, 2), options).val.v,
                                        PairChar(ts[n - 1].cp, ts[n].cp))
           /\ PairChar(ts[n - 1].cp, ts[n].cp) \in 65536..1114111

(***************************************************************************)
(* C12: in strict mode a high surrogate escape followed by the closing     *)
(* quote, by a character that may stand raw in a string or by one of the   *)
(* escapes other than \u fails with MissingLowSurrogate, and one followed  *)
(* by a \u escape of four digits that is not a low surrogate fails with    *)
(* InvalidLowSurrogate; the error names the high surrogate and no string   *)
(* is produced.  The high surrogate is the first one that follows tokens   *)
(* making a string.                                                        *)
(***************************************************************************)
IsValidEsc(t) == t.kind = "esc" /\ t.c \in {34, 92, 47, 98, 102, 110, 114, 116}
IsRawAllowed(t) == t.kind = "raw" /\ t.c > 31 /\ t.c # 34 /\ t.c # 92

\* The token at i is a high surrogate escape and the one after it, or the
\* closing quote that ends the literal, is of the given kind.
HighFollowedBy(i, F(_), quote) ==
    LET ts == origin.tokens
    IN /\ i \in 1..Len(ts) /\ IsHighU(ts[i])
       /\ ParsedTokens(SubSeq(ts, 1, i - 1), Strict).ok
       /\ IF i = Len(ts) THEN quote /\ origin.closed ELSE F(ts[i + 1])

FailsWith(kind, high) ==
    /\ ~result.val.ok
    /\ DOMAIN result.val = {"ok", "p", "err", "at"}
    /\ result.val.err.kind = kind
    /\ result.val.err.high = high

RECURSIVE ReadByTokens(_)
ReadByTokens(ts) ==
    IF ts = <<>> THEN <<>>
    ELSE IF IsHighU(ts[1])
    THEN IF Len(ts) >= 2 /\ IsLowU(ts[2])
         THEN <<PairChar(ts[1].cp, ts[2].cp)>> \o ReadByTokens(SubSeq(ts, 3, Len(ts)))
         ELSE <<65533>> \o ReadByTokens(Tail(ts))
    ELSE ParsedTokens(<<ts[1]>>, Flexible).val.v \o ReadByTokens(Tail(ts))

C13_UnpairedHighReplaced ==
    (/\ result.some /\ origin.closed /\ options = Flexible
     /\ \A i \in 1..Len(origin.tokens) :
           IsHighU(origin.tokens[i]) \/ ParsedTokens(<<origin.tokens[i]>>, Flexible).ok) =>
        /\ result.val.ok
        /\ result.val.val.v = ReadByTokens(origin.tokens)
        /\ parser.chars = <<>>

(***************************************************************************)
(* C14: flexible mode only weakens strict mode.  What strict mode accepts, *)
(* flexible mode accepts with the same value read to the same place; what  *)
(* strict mode rejects with another error than MissingLowSurrogate,        *)
(* InvalidLowSurrogate or InvalidUnicodeCodePoint, flexible mode rejects   *)
(* with the same error at the same place; so the two differ only where     *)
(* strict mode fails with one of the three.  Each option alone weakens     *)
(* only its own errors.                                                    *)
(***************************************************************************)
SurrogateErrors == {"MissingLowSurrogate", "InvalidLowSurrogate"}
CodePointErrors == {"InvalidUnicodeCodePoint"}

\* The errors of strict mode that the options opts turn off.
Weakened(opts) ==
    (IF opts.accept_truncated_surrogate_pair THEN SurrogateErrors ELSE {})
        \cup (IF opts.accept_invalid_codepoints THEN CodePointErrors ELSE {})

StrictResult == StringParse(ParserNew(input), Strict)

C14_FlexibleWeakensStrict ==
    result.some =>
        /\ Weakened(Flexible) = SurrogateErrors \cup CodePointErrors
        /\ Weakened(Strict) = {}
        /\ StrictResult.ok => result.val = StrictResult
        /\ (~StrictResult.ok /\ StrictResult.err.kind \notin Weakened(options)) =>
              result.val = StrictResult
        /\ result.val # StrictResult =>
              ~StrictResult.ok /\ StrictResult.err.kind \in Weakened(options)

\* A lone low surrogate escape, then a high surrogate escape before the
\* closing quote: rejected by strict mode, accepted by flexible mode.
C14_Witness ==
    /\ result.some /\ options = Flexible
    /\ origin.tokens = <<TokRaw(Ch.a), TokU(56320, FALSE), TokU(55348, TRUE)>>
    /\ origin.closed
    /\ StrictResult.err.kind = "InvalidUnicodeCodePoint"
    /\ result.val.ok
    /\ result.val.val.v = <<Ch.a, 65533, 65533>>


(***************************************************************************)
(* Keyed lookup against a linear scan of the entry vector.                 *)
(***************************************************************************)
\* The positions i >= from with es[i].key = k, in ascending order.
RECURSIVE ScanFrom(_, _, _)
ScanFrom(es, k, from) ==
    IF from >= Len(es) THEN <<>>
    ELSE IF At(es, from).key = k
         THEN <<from>> \o ScanFrom(es, k, from + 1)
         ELSE ScanFrom(es, k, from + 1)

Scan(es, k) == ScanFrom(es, k, 0)

LookupAgrees(o, k) ==
    LET scan == Scan(o.entries, k)
    IN /\ IndexesOf(o, k) = scan
       /\ GetEntries(o, k) = [j \in 1..Len(scan) |-> At(o.entries, scan[j])]
       /\ Get(o, k) = [j \in 1..Len(scan) |-> At(o.entries, scan[j]).value]

\* C15.  In every object state and for every key k, indexes_of(k),
\* get_entries(k) and get(k) yield the positions i with entries[i].key = k
\* (resp. the entries and the values at these positions), each once, in
\* ascending order of i, and nothing when no entry has key k.
C15_LookupIsLinearScan == \A k \in Keys : LookupAgrees(Obj, k)

\* A push_front has put a third entry of a key before two others, next to an
\* entry of the other key; the lookup of the key yields the three positions.
C15_Witness ==
    /\ last.op = "push_front"
    /\ last.key = KeyA
    /\ Len(entries) = 4
    /\ IndexesOf(Obj, KeyA) = <<0, 2, 3>>
    /\ IndexesOf(Obj, KeyB) = <<1>>
    /\ Get(Obj, KeyA) = <<last.value, At(entries, 2).value, At(entries, 3).value>>

(***************************************************************************)
(* push and push_front.                                                    *)
(***************************************************************************)
HasKey(es, k) == \E i \in 1..Len(es) : es[i].key = k

\* C16.  push(key, value) appends the entry at position len, push_front(key,
\* value) inserts it at position 0 with every earlier entry moved up by one;
\* both keep all existing entries in their relative order and return true if
\* and only if no entry with that key was present before the call.
C16_PushKeepsEntries ==
    /\ last.op = "push" =>
          /\ entries = Append(last.before, Entry(last.key, last.value))
          /\ last.ret = ~HasKey(last.before, last.key)
    /\ last.op = "push_front" =>
          /\ entries = <<Entry(last.key, last.value)>> \o last.before
          /\ last.ret = ~HasKey(last.before, last.key)

\* A push_front of a key that two of the three earlier entries already had:
\* the call returned false and all four entries are there.
C16_Witness ==
    /\ last.op = "push_front"
    /\ last.key = KeyB
    /\ ~last.ret
    /\ Len(last.before) = 3
    /\ Scan(last.before, KeyB) = <<0, 2>>
    /\ Scan(entries, KeyB) = <<0, 1, 3>>

(***************************************************************************)
(* object/mod.rs : get_unique, get_unique_entry.  Both take &self.         *)
(***************************************************************************)
UniqueOk(x) == [ok |-> TRUE, val |-> x]

Duplicate(first, second) == [ok |-> FALSE, first |-> first, second |-> second]

\* The first two calls of next() on the iterator of get_entries.
GetUniqueEntry(o, k) ==
    LET found == GetEntries(o, k)
    IN IF Len(found) >= 1
       THEN IF Len(found) >= 2
            THEN Duplicate(found[1], found[2])
            ELSE UniqueOk(Some(found[1]))
       ELSE UniqueOk(None)

GetUnique(o, k) ==
    LET found == GetEntries(o, k)
    IN IF Len(found) >= 1
       THEN IF Len(found) >= 2
            THEN Duplicate(found[1], found[2])
            ELSE UniqueOk(Some(found[1].value))
       ELSE UniqueOk(None)

UniqueAgrees(o, k) ==
    LET scan == Scan(o.entries, k)
    IN CASE Len(scan) = 0 ->
              /\ GetUnique(o, k) = UniqueOk(None)
              /\ GetUniqueEntry(o, k) = UniqueOk(None)
         [] Len(scan) = 1 ->
              /\ GetUnique(o, k) = UniqueOk(Some(At(o.entries, scan[1]).value))
              /\ GetUniqueEntry(o, k) = UniqueOk(Some(At(o.entries, scan[1])))
         [] OTHER ->
              /\ GetUnique(o, k) =
                     Duplicate(At(o.entries, scan[1]), At(o.entries, scan[2]))
              /\ GetUniqueEntry(o, k) =
                     Duplicate(At(o.entries, scan[1]), At(o.entries, scan[2]))

\* C17.  get_unique(k) and get_unique_entry(k) return Ok(None) when no entry
\* has key k, Ok(Some) of the single match when exactly one has it, and
\* Err(Duplicate(first, second)) with the two matching entries of lowest
\* position when two or more have it.  (Both borrow the object immutably.)
C17_GetUnique == \A k \in Keys : UniqueAgrees(Obj, k)

\* Three entries of a key with different values at positions 1, 2 and 3: the
\* error carries those at 1 and 2, while the other key has a single match.
C17_Witness ==
    /\ Scan(entries, KeyA) = <<1, 2, 3>>
    /\ At(entries, 1).value # At(entries, 2).value
    /\ At(entries, 3).value # At(entries, 2).value
    /\ GetUnique(Obj, KeyA) = Duplicate(At(entries, 1), At(entries, 2))
    /\ GetUniqueEntry(Obj, KeyB) = UniqueOk(Some(At(entries, 0)))

(***************************************************************************)
(* object/mod.rs : insert and the iterator RemovedByInsertion, one call of *)
(* next() at a time.                                                       *)
(***************************************************************************)
\* Object::insert : the object after the call and the Option returned, the
\* iterator being the record of its fields `index` and `first`.
ObjectInsert(o, k, v) ==
    LET found == IndexOf(o, k)
    IN IF found.some
       THEN [object |-> [entries |-> [o.entries EXCEPT ![found.val + 1] = Entry(k, v)],
                         indexes |-> o.indexes],
             ret |-> Some([index |-> found.val,
                           first |-> Some(At(o.entries, found.val))])]
       ELSE [object |-> PushEntry(o, Entry(k, v)).obj, ret |-> None]

\* RemovedByInsertion::next : the iterator, the object and the item yielded.
RemovedByInsertionNext(it, o) ==
    IF it.first.some
    THEN [it |-> [it EXCEPT !.first = None], object |-> o, item |-> it.first]
    ELSE LET key == At(o.entries, it.index).key
             red == RedundantIndexOf(o, key)
             r == RemoveAt(o, red.val)
         IN IF red.some
            THEN [it |-> it, object |-> r.obj, item |-> r.removed]
            ELSE [it |-> it, object |-> o, item |-> None]

\* n calls of next(): the items yielded (None included) and what is left.
RECURSIVE RemovedByInsertionRun(_, _, _)
RemovedByInsertionRun(it, o, n) ==
    IF n = 0 THEN [it |-> it, object |-> o, items |-> <<>>]
    ELSE LET r == RemovedByInsertionNext(it, o)
             rest == RemovedByInsertionRun(r.it, r.object, n - 1)
         IN [rest EXCEPT !.items = <<r.item>> \o rest.items]

\* The entries of es without those at the (0-based) positions of the set gone.
RECURSIVE Without(_, _)
Without(es, gone) ==
    IF es = <<>> THEN <<>>
    ELSE LET n == Len(es)
             front == Without(SubSeq(es, 1, n - 1), gone)
         IN IF (n - 1) \in gone THEN front ELSE Append(front, es[n])

\* What insert(k, v) is stated to do on the object o, `after` being the
\* entries once the call is over and the iterator dropped.
InsertAsStated(o, k, v, after) ==
    LET scan == Scan(o.entries, k)
        call == ObjectInsert(o, k, v)
        replaced == [o.entries EXCEPT ![scan[1] + 1] = Entry(k, v)]
    IN IF scan = <<>>
       THEN /\ call.ret = None
            /\ call.object.entries = Append(o.entries, Entry(k, v))
            /\ after = call.object.entries
       ELSE /\ call.ret.some
            /\ call.object.entries = replaced
            \* the n-th call of next() yields the n-th match and has removed
            \* the matches 2..n; the calls after the last match yield None
            /\ \A n \in 0..(Len(scan) + 1) :
                  LET run == RemovedByInsertionRun(call.ret.val, call.object, n)
                      m == IF n <= Len(scan) THEN n ELSE Len(scan)
                  IN /\ run.items =
                           [j \in 1..n |-> IF j <= Len(scan)
                                           THEN Some(At(o.entries, scan[j]))
                                           ELSE None]
                     /\ run.object.entries =
                           Without(replaced, {scan[j] : j \in 2..m})
            /\ after = Without(replaced, {scan[j] : j \in 2..Len(scan)})
            /\ Scan(after, k) = <<scan[1]>>
            /\ At(after, scan[1]) = Entry(k, v)

\* C18.  insert(key, value): if no entry has the key, the entry is pushed at
\* the end and None is returned; otherwise the new entry overwrites the first
\* entry with that key in place and the iterator yields the overwritten entry
\* first, then every other entry with that key in ascending original
\* position, removing each as it is yielded; once the iterator is exhausted
\* or dropped exactly one entry has the key, at the position of the former
\* first occurrence, and the entries with other keys keep their order.
C18_Insert ==
    [][last'.op = "insert" => InsertAsStated(Obj, last'.key, last'.value, entries')]_vars

\* An insert of a key that the entries at positions 1 and 2 had, between
\* entries of the other key: one entry of the key is left, at position 1.
C18_Witness ==
    /\ last.op = "insert"
    /\ last.key = KeyA
    /\ Scan(last.before, KeyA) = <<1, 2>>
    /\ Len(last.before) = 3
    /\ At(last.before, 1).value # last.value
    /\ entries = <<At(last.before, 0), Entry(KeyA, last.value)>>

(***************************************************************************)
(* object/mod.rs : insert_front, remove and their iterators                *)
(* RemovedByInsertFront and RemovedEntries.                                *)
(***************************************************************************)
\* Object::insert_front : the object after the call and the iterator, the
\* record of its field `first`.
ObjectInsertFront(o, k, v) ==
    IF o.entries # <<>> /\ At(o.entries, 0).key = k
    THEN [object |-> [entries |-> [o.entries EXCEPT ![1] = Entry(k, v)],
                      indexes |-> o.indexes],
          ret |-> [first |-> Some(At(o.entries, 0))]]
    ELSE [object |-> PushEntryFront(o, Entry(k, v)).obj,
          ret |-> [first |-> None]]

\* RemovedByInsertFront::next
RemovedByInsertFrontNext(it, o) ==
    IF it.first.some
    THEN [it |-> [it EXCEPT !.first = None], object |-> o, item |-> it.first]
    ELSE LET key == At(o.entries, 0).key
             red == RedundantIndexOf(o, key)
             r == RemoveAt(o, red.val)
         IN IF red.some
            THEN [it |-> it, object |-> r.obj, item |-> r.removed]
            ELSE [it |-> it, object |-> o, item |-> None]

\* Object::remove : the iterator, the record of its field `key`; the object
\* is not touched by the call itself.
ObjectRemove(o, k) == [object |-> o, ret |-> [key |-> k]]

\* RemovedEntries::next
RemovedEntriesNext(it, o) ==
    LET found == IndexOf(o, it.key)
        r == RemoveAt(o, found.val)
    IN IF found.some
       THEN [it |-> it, object |-> r.obj, item |-> r.removed]
       ELSE [it |-> it, object |-> o, item |-> None]

\* n calls of next() on an iterator of the given type.
RECURSIVE IterCalls(_, _, _, _)
IterCalls(type, it, o, n) ==
    IF n = 0 THEN [it |-> it, object |-> o, items |-> <<>>]
    ELSE LET r == IF type = "RemovedByInsertFront"
                  THEN RemovedByInsertFrontNext(it, o)
                  ELSE RemovedEntriesNext(it, o)
             rest == IterCalls(type, r.it, r.object, n - 1)
         IN [rest EXCEPT !.items = <<r.item>> \o rest.items]

\* What insert_front(k, v) is stated to do on the object o, `after` being
\* the entries once the call is over and the iterator dropped.
InsertFrontAsStated(o, k, v, after) ==
    LET scan == Scan(o.entries, k)
        call == ObjectInsertFront(o, k, v)
        atFront == scan # <<>> /\ scan[1] = 0
        \* the matches the iterator is to return, the one at 0 first
        all == IterCalls("RemovedByInsertFront", call.ret, call.object, Len(scan) + 1)
        others == Without(o.entries, {scan[j] : j \in 1..Len(scan)})
    IN /\ atFront =>
             /\ call.object.entries = [o.entries EXCEPT ![1] = Entry(k, v)]
             /\ call.ret.first = Some(At(o.entries, 0))
             /\ all.items[1] = Some(At(o.entries, 0))
       /\ ~atFront =>
             /\ call.object.entries = <<Entry(k, v)>> \o o.entries
             /\ call.ret.first = None
       /\ all.items = [j \in 1..(Len(scan) + 1) |->
                          IF j <= Len(scan) THEN Some(At(o.entries, scan[j])) ELSE None]
       /\ all.object.entries = after
       /\ after = <<Entry(k, v)>> \o others
       /\ Scan(after, k) = <<0>>

\* C19.  insert_front(key, value): after the call and after the returned
\* iterator is exhausted or dropped, entries[0] is (key, value), no other
\* entry has that key and the entries with other keys keep their relative
\* order; when the entry at position 0 already had the key it is replaced in
\* place and returned first by the iterator, otherwise the new entry is
\* prepended and the iterator returns only the former duplicates.
C19_InsertFront ==
    [][last'.op = "insert_front" =>
          InsertFrontAsStated(Obj, last'.key, last'.value, entries')]_vars

\* An insert_front of the key of the entries at positions 0 and 2, with
\* another value, an entry of the other key lying between them.
C19_Witness ==
    /\ last.op = "insert_front"
    /\ last.key = KeyB
    /\ Len(last.before) = 3
    /\ Scan(last.before, KeyB) = <<0, 2>>
    /\ At(last.before, 0).value # last.value
    /\ entries = <<Entry(KeyB, last.value), At(last.before, 1)>>

(***************************************************************************)
(* remove and the iterator RemovedEntries against their statement.         *)
(***************************************************************************)
\* What remove(k) is stated to do on the object o, `after` being the object
\* once the iterator is dropped.
RemoveAsStated(o, k, after) ==
    LET scan == Scan(o.entries, k)
        call == ObjectRemove(o, k)
        gone == Without(o.entries, {scan[j] : j \in 1..Len(scan)})
    IN /\ call.object = o
       /\ \A n \in 0..(Len(scan) + 1) :
             LET run == IterCalls("RemovedEntries", call.ret, call.object, n)
                 m == IF n <= Len(scan) THEN n ELSE Len(scan)
             IN \* the n-th call yields the lowest match left and removes it
                /\ run.items =
                      [j \in 1..n |-> IF j <= Len(scan)
                                      THEN Some(At(o.entries, scan[j]))
                                      ELSE None]
                /\ run.object.entries = Without(o.entries, {scan[j] : j \in 1..m})
                \* n smaller positions are gone: the lowest match left is
                \* the one the next call is to yield
                /\ n < Len(scan) =>
                      Scan(run.object.entries, k)[1] + n = scan[n + 1]
                \* dropped after n calls
                /\ RemoveDropped(run.object, k) = after
       /\ after.entries = gone
       /\ Scan(after.entries, k) = <<>>
       /\ scan = <<>> => after = o
       /\ RemoveDropped(after, k) = after

\* C20.  remove(key) returns an iterator whose every next() removes and
\* yields the entry with that key that currently has the lowest position;
\* dropping the iterator at any point, even before the first next(), removes
\* all remaining matches, so that afterwards no entry has the key and the
\* entries with other keys are unchanged and in the same relative order;
\* removing an absent key, or the same key twice, changes nothing.
C20_Remove ==
    [][last'.op = "remove" =>
          RemoveAsStated(Obj, last'.key,
                         [entries |-> entries', indexes |-> indexes'])]_vars

\* A remove of the key of the entries at positions 0, 2 and 3: the entry of
\* the other key at position 1 is all that is left.
C20_Witness ==
    /\ last.op = "remove"
    /\ last.key = KeyA
    /\ Scan(last.before, KeyA) = <<0, 2, 3>>
    /\ Len(last.before) = 4
    /\ entries = <<At(last.before, 1)>>
    /\ indexes = {IndexesNew(0)}

(***************************************************************************)
(* sort.                                                                   *)
(***************************************************************************)
Count(s, e) == Cardinality({i \in 1..Len(s) : s[i] = e})

IsPermutation(s, t) ==
    /\ Len(s) = Len(t)
    /\ \A e \in Range(s) \cup Range(t) : Count(s, e) = Count(t, e)

\* Ascending by key and, among entries of one key, by value.
IsSortedEntries(es) ==
    \A i \in 1..(Len(es) - 1) :
        LET k == SeqCmp(es[i].key, es[i + 1].key)
        IN k < 0 \/ (k = 0 /\ ValueCmp(es[i].value, es[i + 1].value) <= 0)

\* C21.  sort() leaves the object with a permutation of its former entries
\* ordered by key and, among entries with equal keys, by value; the index
\* after sort is the one built from scratch over the sorted entries, and
\* sorting a second time changes nothing.
C21_Sort ==
    last.op = "sort" =>
        /\ IsPermutation(entries, last.before)
        /\ IsSortedEntries(entries)
        /\ Obj = ObjectFromVec(entries)
        /\ ObjectSort(Obj) = Obj

\* A sort of (b,1), (a,2), (a,1), (a,2), which moves every entry.
C21_Witness ==
    /\ last.op = "sort"
    /\ last.before = <<Entry(KeyB, VNumber(<<49>>)), Entry(KeyA, VNumber(<<50>>)),
                       Entry(KeyA, VNumber(<<49>>)), Entry(KeyA, VNumber(<<50>>))>>
    /\ entries = <<Entry(KeyA, VNumber(<<49>>)), Entry(KeyA, VNumber(<<50>>)),
                   Entry(KeyA, VNumber(<<50>>)), Entry(KeyB, VNumber(<<49>>))>>
(***************************************************************************)
(* Unordered equality.  object/mod.rs : UnorderedPartialEq for Object;     *)
(* unordered.rs : UnorderedPartialEq for Vec<T>; for Value: scalars are    *)
(* compared by their bytes, arrays and objects by unordered_eq, values of  *)
(* different kinds are not equal.                                          *)
(***************************************************************************)
MaxUEntries == 3
AsObject(v) == [entries |-> v.entries, indexes |-> v.indexes]

\* An equality of objects that compares the entries position by position.
ObjectUnorderedEqInOrder(a, b) == a.entries = b.entries

RECURSIVE ValueUnorderedEq(_, _)
RECURSIVE VecUnorderedEq(_, _)
\* An equality of objects that never makes the check in the other direction.
ObjectUnorderedEqOneWay(a, b) ==
    /\ Len(a.entries) = Len(b.entries)
    /\ \A i \in 1..Len(a.entries) :
          \E j \in 1..Len(GetEntries(b, a.entries[i].key)) :
              ValueUnorderedEq(a.entries[i].value,
                               GetEntries(b, a.entries[i].key)[j].value)

\* UnorderedPartialEq for Object
ObjectUnorderedEq(a, b) ==
    LET Matched(e, o) ==
            \E j \in 1..Len(GetEntries(o, e.key)) :
                ValueUnorderedEq(e.value, GetEntries(o, e.key)[j].value)
        Matching(e, o) ==
            \E j \in 1..Len(GetEntries(o, e.key)) :
                ValueUnorderedEq(GetEntries(o, e.key)[j].value, e.value)
    IN IF Len(a.entries) # Len(b.entries) THEN FALSE
       ELSE IF ~(\A i \in 1..Len(a.entries) : Matched(a.entries[i], b)) THEN FALSE
       ELSE IF ContainsDuplicateKeys(a.indexes)
                /\ ~(\A i \in 1..Len(b.entries) : Matching(b.entries[i], a))
       THEN FALSE
       ELSE TRUE

VecUnorderedEq(s, t) ==
    /\ Len(s) = Len(t)
    /\ \A i \in 1..Len(s) : ValueUnorderedEq(s[i], t[i])

ValueUnorderedEq(a, b) ==
    IF a.kind # b.kind THEN FALSE
    ELSE CASE a.kind = "array" -> VecUnorderedEq(a.items, b.items)
           [] a.kind = "object" -> ObjectUnorderedEq(AsObject(a), AsObject(b))
           [] OTHER -> a = b

\* PartialEq for Object compares the entries.
RECURSIVE ValueEq(_, _)
ValueEq(a, b) ==
    IF a.kind # b.kind THEN FALSE
    ELSE CASE a.kind = "array" ->
                /\ Len(a.items) = Len(b.items)
                /\ \A i \in 1..Len(a.items) : ValueEq(a.items[i], b.items[i])
           [] a.kind = "object" ->
                /\ Len(a.entries) = Len(b.entries)
                /\ \A i \in 1..Len(a.entries) :
                      /\ a.entries[i].key = b.entries[i].key
                      /\ ValueEq(a.entries[i].value, b.entries[i].value)
           [] OTHER -> a = b

(***************************************************************************)
(* The comparison of two values drawn from a bounded set.                  *)
(***************************************************************************)
UEntries == {Entry(KeyA, VNumber(<<49>>)), Entry(KeyB, VNumber(<<49>>))}
UFlat ==
    {VObject(ObjectFromVec(es)) : es \in SeqsUpTo(UEntries, MaxUEntries)}
        \cup {VObject(ObjectFromVec(es)) :
                es \in {<<Entry(KeyB, VNumber(<<50>>))>>,
                        <<Entry(KeyA, VNumber(<<49>>)), Entry(KeyB, VNumber(<<50>>))>>,
                        <<Entry(KeyB, VNumber(<<50>>)), Entry(KeyA, VNumber(<<49>>))>>,
                        <<Entry(KeyB, VNumber(<<49>>)), Entry(KeyB, VNumber(<<50>>))>>}}
UInner == {VObject(ObjectFromVec(es)) : es \in [1..(MaxUEntries - 1) -> UEntries]}
Backwards(x) ==
    VObject(ObjectFromVec([i \in 1..Len(x.entries) |-> x.entries[Len(x.entries) + 1 - i]]))
UNestedWith(x) ==
    UNION {{VArray(<<x, y>>), VObject(ObjectFromVec(<<Entry(KeyA, x), Entry(KeyA, y)>>))} :
           y \in {x, Backwards(x), VNumber(<<49>>)}}
UNested == UNION {UNestedWith(x) : x \in UInner}
UnorderedValues == UFlat \cup UNested \cup {VNumber(<<49>>), VArray(<<>>)}

UnorderedInit ==
    /\ ObjIdle
    /\ origin \in {[kind |-> "pair", a |-> x, b |-> y] :
                     x \in UnorderedValues, y \in UnorderedValues}
    /\ input = <<>>
    /\ context = "None"
    /\ options = Strict
    /\ parser = ParserNew(input)
    /\ stack = <<>>
    /\ value = None
    /\ code_map = <<>>
    /\ result = None

\* a.as_unordered() == b.as_unordered()
CompareUnordered ==
    /\ ~result.some
    /\ result' = Some(ValueUnorderedEq(origin.a, origin.b))
    /\ UNCHANGED <<entries, indexes, last, input, options, context, parser, stack,
                   value, code_map, origin>>

UnorderedNext == CompareUnordered

SpecUnordered == UnorderedInit /\ [][UnorderedNext]_vars

\* The permutations of a sequence.
RECURSIVE Perms(_)
Perms(s) ==
    IF s = <<>> THEN {<<>>}
    ELSE UNION {{<<s[i]>> \o p : p \in Perms(VecRemove(s, i - 1))} : i \in 1..Len(s)}

\* The values obtained from v by permuting the entries of objects at any
\* depth, the items of arrays staying where they are.
RECURSIVE Reordered(_)
RECURSIVE ReorderedEach(_, _)
ReorderedEach(s, isEntries) ==
    IF s = <<>> THEN {<<>>}
    ELSE {<<h>> \o t :
            h \in IF isEntries
                  THEN {Entry(Head(s).key, x) : x \in Reordered(Head(s).value)}
                  ELSE Reordered(Head(s)),
            t \in ReorderedEach(Tail(s), isEntries)}

Reordered(v) ==
    CASE v.kind = "array" -> {VArray(s) : s \in ReorderedEach(v.items, FALSE)}
      [] v.kind = "object" ->
           {VObject(ObjectFromVec(p)) :
              p \in UNION {Perms(s) : s \in ReorderedEach(v.entries, TRUE)}}
      [] OTHER -> {v}

\* C22.  Unordered equality ignores the order of object entries: a value and
\* any reordering of the entries of its objects are unordered-equal, also
\* when they are not equal under ==; the unordered equality of two values is
\* unchanged by any permutation of the entries of any object nested in
\* either of them; the order of array items still matters.
C22_OrderIgnored ==
    result.some =>
        /\ \A x \in Reordered(origin.a) : ValueUnorderedEq(origin.a, x)
        /\ \A x \in Reordered(origin.a), y \in Reordered(origin.b) :
              ValueUnorderedEq(x, y) = result.val
        /\ (origin.a.kind = "array" /\ Len(origin.a.items) = 2) =>
              (ValueUnorderedEq(origin.a, VArray(<<origin.a.items[2], origin.a.items[1]>>))
                  = ValueUnorderedEq(origin.a.items[1], origin.a.items[2]))

\* (a,1), (b,1) compared with (b,1), (a,1) : unordered-equal, not equal.
C22_Witness ==
    /\ result = Some(TRUE)
    /\ origin.a = VObject(ObjectFromVec(<<Entry(KeyA, VNumber(<<49>>)),
                                          Entry(KeyB, VNumber(<<49>>))>>))
    /\ origin.b = VObject(ObjectFromVec(<<Entry(KeyB, VNumber(<<49>>)),
                                          Entry(KeyA, VNumber(<<49>>))>>))
    /\ ~ValueEq(origin.a, origin.b)

(***************************************************************************)
(* Unordered equality and the multiplicity of entries.                     *)
(***************************************************************************)
\* The number of entries of es with the key of e and a value unordered-equal
\* to its value.
CountLike(es, e) ==
    Cardinality({i \in 1..Len(es) :
                    es[i].key = e.key /\ ValueUnorderedEq(es[i].value, e.value)})

SameMultiset(s, t) ==
    \A e \in Range(s) \cup Range(t) : CountLike(s, e) = CountLike(t, e)

\* C23.  Two objects are unordered-equal only if, for every key and every
\* group of mutually unordered-equal values, both contain the same number of
\* entries with that key and such a value: only if their multisets of
\* entries are equal, and not merely their lengths and their sets of entries.
C23_MultiplicitiesRespected ==
    (result = Some(TRUE) /\ origin.a.kind = "object" /\ origin.b.kind = "object") =>
        SameMultiset(origin.a.entries, origin.b.entries)

(***************************************************************************)
(* Canonicalisation.  lib.rs : Value::canonicalize_with; object/mod.rs :   *)
(* Object::canonicalize_with.  A number is replaced by the text of         *)
(* n.canonical_with(buffer), which is what ryu_js writes for the f64 of    *)
(* the number: Number::toString of ECMAScript.  The numbers of the model   *)
(* have few digits and small exponents, so that the f64 nearest to the     *)
(* number has the digits of the literal as its shortest representation.    *)
(***************************************************************************)
IsDigitChar(c) == c >= Ch.zero /\ c <= Ch.nine

\* The first position of s that holds a member of cs, or Len(s) + 1.
FirstOf(s, cs) ==
    IF \E i \in 1..Len(s) : s[i] \in cs
    THEN CHOOSE i \in 1..Len(s) : s[i] \in cs /\ \A j \in 1..(i - 1) : s[j] \notin cs
    ELSE Len(s) + 1

RECURSIVE DigitsValue(_)
DigitsValue(s) ==
    IF s = <<>> THEN 0 ELSE 10 * DigitsValue(SubSeq(s, 1, Len(s) - 1)) + (s[Len(s)] - Ch.zero)

RECURSIVE NatText(_)
NatText(n) ==
    IF n < 10 THEN <<Ch.zero + n>> ELSE Append(NatText(n \div 10), Ch.zero + (n % 10))

\* The decimal the literal denotes: a sign, the significant digits (without
\* zeros at either end) and n with value = 0.digits * 10^n.
Repeat(c, k) == [i \in 1..k |-> c]

RECURSIVE DropLeadingZeros(_, _)
DropLeadingZeros(digits, n) ==
    IF digits # <<>> /\ Head(digits) = Ch.zero
    THEN DropLeadingZeros(Tail(digits), n - 1)
    ELSE [digits |-> digits, n |-> n]

RECURSIVE DropTrailingZeros(_)
DropTrailingZeros(digits) ==
    IF digits # <<>> /\ digits[Len(digits)] = Ch.zero
    THEN DropTrailingZeros(SubSeq(digits, 1, Len(digits) - 1))
    ELSE digits

\* Number::as_f64_lossy, as a decimal.
NumberDecimal(num) ==
    LET neg == Head(num) = Ch.minus
        body == IF neg THEN Tail(num) ELSE num
        ePos == FirstOf(body, {Ch.e, Ch.E})
        mant == SubSeq(body, 1, ePos - 1)
        expText == SubSeq(body, ePos + 1, Len(body))
        expNeg == expText # <<>> /\ Head(expText) = Ch.minus
        expDigits == IF expText # <<>> /\ Head(expText) \in {Ch.minus, Ch.plus}
                     THEN Tail(expText) ELSE expText
        exp == IF expNeg THEN 0 - DigitsValue(expDigits) ELSE DigitsValue(expDigits)
        dotPos == FirstOf(mant, {Ch.dot})
        int == SubSeq(mant, 1, dotPos - 1)
        frac == SubSeq(mant, dotPos + 1, Len(mant))
        d == DropLeadingZeros(int \o frac, Len(int) + exp)
    IN [neg |-> neg, digits |-> DropTrailingZeros(d.digits), n |-> d.n]

\* ryu_js::Buffer::format_finite : Number::toString.
FormatFinite(d) ==
    LET k == Len(d.digits)
        n == d.n
        e == n - 1
        text ==
            IF k <= n /\ n <= 21 THEN d.digits \o Repeat(Ch.zero, n - k)
            ELSE IF 0 < n /\ n <= 21
            THEN SubSeq(d.digits, 1, n) \o <<Ch.dot>> \o SubSeq(d.digits, n + 1, k)
            ELSE IF -6 < n /\ n <= 0
            THEN <<Ch.zero, Ch.dot>> \o Repeat(Ch.zero, 0 - n) \o d.digits
            ELSE (IF k = 1 THEN d.digits
                  ELSE <<Head(d.digits), Ch.dot>> \o Tail(d.digits))
                 \o <<Ch.e, IF e < 0 THEN Ch.minus ELSE Ch.plus>>
                 \o NatText(IF e < 0 THEN 0 - e ELSE e)
    IN IF k = 0 THEN <<Ch.zero>>
       ELSE IF d.neg THEN <<Ch.minus>> \o text ELSE text

\* Number::canonical_with
NumberCanonical(num) == FormatFinite(NumberDecimal(num))

RECURSIVE ValueCanonicalize(_)
\* A canonicalisation that sorts the entries before canonicalising the values.
ObjectCanonicalizeSortFirst(o) ==
    LET sorted == ObjectSort(o)
    IN [entries |-> [i \in 1..Len(sorted.entries) |->
                       Entry(sorted.entries[i].key,
                             ValueCanonicalize(sorted.entries[i].value))],
        indexes |-> sorted.indexes]

ObjectCanonicalize(o) ==
    ObjectSort([entries |-> [i \in 1..Len(o.entries) |->
                                Entry(o.entries[i].key,
                                      ValueCanonicalize(o.entries[i].value))],
                indexes |-> o.indexes])

ValueCanonicalize(v) ==
    CASE v.kind = "number" -> VNumber(NumberCanonical(v.num))
      [] v.kind = "array" ->
           VArray([i \in 1..Len(v.items) |-> ValueCanonicalize(v.items[i])])
      [] v.kind = "object" -> VObject(ObjectCanonicalize(AsObject(v)))
      [] OTHER -> v

(***************************************************************************)
(* Values are canonicalised, up to MaxCalls times in a row.                *)
(***************************************************************************)
MaxCalls == 2
MaxCanonEntries == 2

CanonNumbers == {<<Ch.one>>, <<Ch.one, Ch.e, Ch.zero>>, <<Ch.one, Ch.dot, Ch.five>>,
                 <<Ch.minus, Ch.zero>>, <<Ch.one, Ch.E, Ch.one + 1, Ch.one>>,
                 <<Ch.one, Ch.zero, Ch.e, Ch.minus, Ch.nine>>,
                 <<Ch.one, Ch.five, Ch.dot, Ch.zero>>}
CanonKeys == {KeyA, <<Ch.emoji>>, <<U.replacement>>}
CanonLeaves == {VNumber(<<Ch.one>>), VNumber(<<Ch.one, Ch.e, Ch.zero>>),
                VNumber(<<Ch.one, Ch.dot, Ch.five>>)}
CanonObjects(ks, vs, n) ==
    {VObject(ObjectFromVec(es)) : es \in SeqsUpTo({Entry(k, v) : k \in ks, v \in vs}, n)}
CanonInner ==
    {VObject(ObjectFromVec(es)) :
       es \in [1..MaxCanonEntries ->
                 {Entry(KeyA, VNumber(<<Ch.one, Ch.e, Ch.zero>>)),
                  Entry(KeyA, VNumber(<<Ch.one, Ch.dot, Ch.five>>)),
                  Entry(KeyB, VNumber(<<Ch.one, Ch.e, Ch.zero>>))}]}
CanonNested ==
    UNION {{VArray(<<x, y>>),
            VObject(ObjectFromVec(<<Entry(<<U.replacement>>, x), Entry(<<Ch.emoji>>, y)>>)),
            VArray(<<VObject(ObjectFromVec(<<Entry(KeyB, VArray(<<x>>)),
                                             Entry(KeyA, y)>>))>>)} :
           x \in CanonInner, y \in CanonInner}
CanonValues ==
    {VNumber(n) : n \in CanonNumbers}
        \cup CanonObjects(CanonKeys, CanonLeaves, MaxCanonEntries)
        \cup CanonNested
        \cup {VNull, VString(<<Ch.emoji>>), VArray(<<>>)}

CanonInit(origins) ==
    /\ entries = <<>>
    /\ indexes = {}
    /\ origin \in origins
    \* last.index counts the calls made, last.before is the pair they were made on
    /\ last = [op |-> "new", key |-> <<>>, value |-> VNull, index |-> 0, ret |-> FALSE,
               before |-> <<>>]
    /\ input = <<>>
    /\ context = "None"
    /\ options = Strict
    /\ parser = ParserNew(input)
    /\ stack = <<>>
    /\ value = Some([a |-> origin.a, b |-> origin.b])
    /\ code_map = <<>>
    /\ result = None

\* a.canonicalize(); b.canonicalize()
Canonicalize ==
    /\ last.index < MaxCalls
    /\ value' = Some([a |-> ValueCanonicalize(value.val.a),
                      b |-> ValueCanonicalize(value.val.b)])
    /\ last' = [last EXCEPT !.op = "canonicalize", !.index = last.index + 1,
                            !.before = value.val]
    /\ UNCHANGED <<entries, indexes, input, options, context, parser, stack, code_map,
                   result, origin>>

CanonNext == Canonicalize

SpecCanon ==
    CanonInit({[kind |-> "value", a |-> x, b |-> x] : x \in CanonValues})
        /\ [][CanonNext]_vars

RECURSIVE NumbersOf(_)
NumbersOf(v) ==
    CASE v.kind = "number" -> {v.num}
      [] v.kind = "array" -> UNION {NumbersOf(v.items[i]) : i \in 1..Len(v.items)}
      [] v.kind = "object" ->
           UNION {NumbersOf(v.entries[i].value) : i \in 1..Len(v.entries)}
      [] OTHER -> {}

\* C24.  Canonicalisation is idempotent: canonicalising a canonicalised value
\* changes neither the order of the entries of any object nor the bytes of
\* any number; canonicalize(canonicalize(v)) and canonicalize(v) are equal
\* and print to identical text.
C24_CanonicalizeIdempotent ==
    (last.op = "canonicalize" /\ last.index >= 2) =>
        /\ value.val.a = last.before.a
        /\ ValueEq(value.val.a, last.before.a)
        /\ \A p \in Presets :
              PrintValue(value.val.a, PresetOptions(p))
                  = PrintValue(last.before.a, PresetOptions(p))
        /\ \A n \in NumbersOf(last.before.a) : NumberCanonical(n) = n

\* [{"b":[{"a":1e0,"a":1.5}],"a":...}] : the first call has moved entries
\* and rewritten numbers, the second call has been made.
C24_Witness ==
    /\ last.op = "canonicalize"
    /\ last.index = 2
    /\ origin.a.kind = "array"
    /\ Len(origin.a.items) = 1
    /\ origin.a.items[1].kind = "object"
    /\ origin.a.items[1].entries[1].key = KeyB
    /\ origin.a.items[1].entries[1].value.items[1].entries
           = <<Entry(KeyA, VNumber(<<Ch.one, Ch.e, Ch.zero>>)),
               Entry(KeyA, VNumber(<<Ch.one, Ch.dot, Ch.five>>))>>
    /\ value.val.a.items[1].entries[1].key = KeyA
    /\ value.val.a.items[1].entries[2].value.items[1].entries
           = <<Entry(KeyA, VNumber(<<Ch.one>>)),
               Entry(KeyA, VNumber(<<Ch.one, Ch.dot, Ch.five>>))>>
    /\ value.val.a = last.before.a

(***************************************************************************)
(* The order of the entries of a canonical value.                          *)
(***************************************************************************)
\* The UTF-16 code units of a string.
RECURSIVE Utf16(_)
Utf16(s) ==
    IF s = <<>> THEN <<>>
    ELSE (IF Head(s) < U.u16 THEN <<Head(s)>>
          ELSE <<U.high_first + ((Head(s) - U.u16) \div 1024),
                 U.low_first + ((Head(s) - U.u16) % 1024)>>)
         \o Utf16(Tail(s))

\* Every object of v, at every depth, has its keys in ascending order of
\* their UTF-16 code units.
RECURSIVE SortedUtf16(_)
SortedUtf16(v) ==
    CASE v.kind = "array" -> \A i \in 1..Len(v.items) : SortedUtf16(v.items[i])
      [] v.kind = "object" ->
           /\ \A i \in 1..Len(v.entries) : SortedUtf16(v.entries[i].value)
           /\ \A i \in 1..(Len(v.entries) - 1) :
                 SeqCmp(Utf16(v.entries[i].key), Utf16(v.entries[i + 1].key)) <= 0
      [] OTHER -> TRUE

\* C25.  After canonicalize, every object at every depth of the value has
\* its entries in the order required by RFC 8785: ascending by the keys
\* compared as sequences of UTF-16 code units.
C25_KeysInUtf16Order ==
    last.op = "canonicalize" => SortedUtf16(value.val.a)

(***************************************************************************)
(* Two values are canonicalised and compared.                              *)
(***************************************************************************)
PairInnerA == VObject(ObjectFromVec(<<Entry(KeyA, VNumber(<<Ch.one>>)),
                                      Entry(KeyB, VNumber(<<Ch.one, Ch.e, Ch.zero>>))>>))
PairInnerB == VObject(ObjectFromVec(<<Entry(KeyB, VNumber(<<Ch.one, Ch.e, Ch.zero>>)),
                                      Entry(KeyA, VNumber(<<Ch.one>>))>>))
PairEntries == {Entry(KeyA, VNumber(<<Ch.one>>)), Entry(KeyA, PairInnerA),
                Entry(KeyA, PairInnerB), Entry(KeyB, VNumber(<<Ch.one, Ch.e, Ch.zero>>)),
                Entry(KeyB, PairInnerA)}
CanonPairValues ==
    {VObject(ObjectFromVec(es)) : es \in SeqsUpTo(PairEntries, MaxCanonEntries)}
        \cup {VArray(<<PairInnerA>>), VArray(<<PairInnerB>>),
              VArray(<<PairInnerA, PairInnerB>>), VArray(<<PairInnerB, PairInnerA>>),
              VArray(<<VObject(ObjectFromVec(<<Entry(KeyB, PairInnerB),
                                               Entry(KeyA, VArray(<<PairInnerA>>))>>))>>),
              VArray(<<VObject(ObjectFromVec(<<Entry(KeyA, VArray(<<PairInnerB>>)),
                                               Entry(KeyB, PairInnerA)>>))>>)}

SpecCanonPair ==
    CanonInit({[kind |-> "pair", a |-> x, b |-> y] :
                 x \in CanonPairValues, y \in CanonPairValues})
        /\ [][CanonNext]_vars

\* Some object of v, at any depth, has two entries with the same key.
RECURSIVE HasDuplicateKeys(_)
HasDuplicateKeys(v) ==
    CASE v.kind = "array" -> \E i \in 1..Len(v.items) : HasDuplicateKeys(v.items[i])
      [] v.kind = "object" ->
           \/ ContainsDuplicateKeys(v.indexes)
           \/ \E i \in 1..Len(v.entries) : HasDuplicateKeys(v.entries[i].value)
      [] OTHER -> FALSE

\* C26.  If two values are unordered-equal and neither contains an object
\* with duplicate keys, then after canonicalising both they are equal entry
\* for entry and their compact prints are identical text.
C26_CanonicalFormsAgree ==
    (/\ last.op = "canonicalize"
     /\ ValueUnorderedEq(origin.a, origin.b)
     /\ ~HasDuplicateKeys(origin.a)
     /\ ~HasDuplicateKeys(origin.b)) =>
        /\ ValueEq(value.val.a, value.val.b)
        /\ value.val.a = value.val.b
        /\ PrintValue(value.val.a, Compact) = PrintValue(value.val.b, Compact)

\* [{"b":{"b":1e0,"a":1},"a":[{"a":1,"b":1e0}]}] and the same value with the
\* entries of its three objects in another order.
C26_Witness ==
    /\ last.op = "canonicalize"
    /\ last.index = 1
    /\ origin.a = VArray(<<VObject(ObjectFromVec(<<Entry(KeyB, PairInnerB),
                                                   Entry(KeyA, VArray(<<PairInnerA>>))>>))>>)
    /\ origin.b = VArray(<<VObject(ObjectFromVec(<<Entry(KeyA, VArray(<<PairInnerB>>)),
                                                   Entry(KeyB, PairInnerA)>>))>>)
    /\ ValueUnorderedEq(origin.a, origin.b)
    /\ ~ValueEq(origin.a, origin.b)
    /\ value.val.a = value.val.b

(***************************************************************************)
(* The order in which traverse() yields the fragments of a parsed value.   *)
(***************************************************************************)
\* C27.  traverse() visits the fragments of a value in the same depth-first
\* pre-order as the code map: the k-th fragment it yields is the fragment
\* described by code-map offset k, so that an array is followed by its items
\* from first to last, an object by its entries in insertion order, and an
\* entry by its key and then its value.
C27_TraverseInCodeMapOrder ==
    Accepted =>
        /\ Len(Traverse(Parsed)) = Len(code_map)
        /\ \A k \in 1..Len(code_map) : Traverse(Parsed)[k] = Fragments[k]

(***************************************************************************)
(* The mapped iterators.  array.rs : iter_mapped, IterMapped::next;        *)
(* object/mod.rs : iter_mapped, IterMapped::next, get_mapped_entries,      *)
(* MappedEntries::next.  Each yields offsets of the code map.              *)
(***************************************************************************)
Mapped(offset, x) == [offset |-> offset, value |-> x]

\* An array iterator that steps by one entry of the code map per item.
ArrayIterMappedFlat(items, cm, cur) ==
    [i \in 1..Len(items) |-> Mapped(cur + i - 1, items[i])]

\* array::IterMapped::next until the items are exhausted, `cur` being the
\* field `offset` of the iterator.
RECURSIVE ArrayIterMappedNext(_, _, _)
ArrayIterMappedNext(items, cm, cur) ==
    IF items = <<>> THEN <<>>
    ELSE <<Mapped(cur, Head(items))>>
            \o ArrayIterMappedNext(Tail(items), cm, cur + At(cm, cur).volume)

ArrayIterMapped(items, cm, offset) == ArrayIterMappedNext(items, cm, offset + 1)

\* Entry::into_mapped inside Mapped::new
MappedEntry(cur, e) ==
    Mapped(cur, [key |-> Mapped(cur + 1, e.key), value |-> Mapped(cur + 2, e.value)])

\* object::IterMapped::next until the entries are exhausted.
RECURSIVE ObjectIterMappedNext(_, _, _)
ObjectIterMappedNext(es, cm, cur) ==
    IF es = <<>> THEN <<>>
    ELSE <<MappedEntry(cur, Head(es))>>
            \o ObjectIterMappedNext(Tail(es), cm, cur + 2 + At(cm, cur + 2).volume)

ObjectIterMapped(o, cm, offset) == ObjectIterMappedNext(o.entries, cm, offset + 1)

\* MappedEntries::next until the indexes are exhausted: the loop moves the
\* offset from the entry at last_index to the entry at the index yielded.
RECURSIVE MappedEntriesNext(_, _, _, _, _)
MappedEntriesNext(ixs, o, cm, cur, last_index) ==
    IF ixs = <<>> THEN <<>>
    ELSE IF last_index < Head(ixs)
    THEN MappedEntriesNext(ixs, o, cm, cur + 2 + At(cm, cur + 2).volume, last_index + 1)
    ELSE <<MappedEntry(cur, At(o.entries, Head(ixs)))>>
            \o MappedEntriesNext(Tail(ixs), o, cm, cur, last_index)

GetMappedEntries(o, cm, offset, k) ==
    MappedEntriesNext(IndexesOf(o, k), o, cm, offset + 1, 0)

\* The pre-order offset of the i-th sub-fragment of the fragment at offset o.
RECURSIVE ChildOffset(_, _, _)
ChildOffset(subs, o, i) ==
    IF i = 1 THEN o + 1
    ELSE ChildOffset(subs, o, i - 1) + StatedVolume(subs[i - 1])

\* The fragment at offset o of the parsed value has the mapped iterators
\* yield the pre-order offsets of its items or entries.
MappedAt(o) ==
    LET f == At(Fragments, o)
        subs == SubFragments(f)
    IN /\ (f.tag = "Value" /\ f.value.kind = "array") =>
             LET it == ArrayIterMapped(f.value.items, code_map, o)
             IN /\ Len(it) = Len(subs)
                /\ \A i \in 1..Len(it) :
                      /\ it[i].offset = ChildOffset(subs, o, i)
                      /\ it[i].value = f.value.items[i]
                      /\ At(Fragments, it[i].offset) = FragmentRefValue(it[i].value)
       /\ (f.tag = "Value" /\ f.value.kind = "object") =>
             LET it == ObjectIterMapped(AsObject(f.value), code_map, o)
             IN /\ Len(it) = Len(subs)
                /\ \A i \in 1..Len(it) :
                      /\ it[i].offset = ChildOffset(subs, o, i)
                      /\ it[i].value.key = Mapped(it[i].offset + 1, f.value.entries[i].key)
                      /\ it[i].value.value =
                            Mapped(it[i].offset + 2, f.value.entries[i].value)
                      /\ At(Fragments, it[i].offset) =
                            FragmentRefEntry(f.value.entries[i])
                      /\ At(Fragments, it[i].offset + 1) =
                            FragmentRefKey(f.value.entries[i].key)
                      /\ At(Fragments, it[i].offset + 2) =
                            FragmentRefValue(f.value.entries[i].value)
                /\ \A k \in {f.value.entries[i].key : i \in 1..Len(f.value.entries)}
                           \cup Keys :
                      LET scan == Scan(f.value.entries, k)
                      IN GetMappedEntries(AsObject(f.value), code_map, o, k)
                            = [j \in 1..Len(scan) |-> it[scan[j] + 1]]

\* C28.  Given a parsed value and its code map, the offsets produced by the
\* mapped iterators are the pre-order code-map offsets of what they yield:
\* for an array at offset o, iter_mapped gives the first item o+1 and each
\* next item the previous offset plus the previous item's volume; for an
\* object at offset o, the first entry o+1, its key at entry+1, its value at
\* entry+2 and the next entry at entry + 2 + value volume; and
\* get_mapped_entries(code_map, o, k) yields, for the entries with key k,
\* the same three offsets as iter_mapped does for those entries.
C28_MappedOffsets ==
    Accepted => \A o \in 0..(Len(code_map) - 1) : MappedAt(o)

\* {"a":[...],"a":...} or the like: an object whose first value is a
\* container and whose second entry repeats the key of the first.
C28_Witness ==
    /\ Accepted
    /\ Parsed.kind = "object"
    /\ Len(Parsed.entries) = 2
    /\ Parsed.entries[1].key = Parsed.entries[2].key
    /\ Parsed.entries[1].value.kind = "array"
    /\ Len(Parsed.entries[1].value.items) = 1
    /\ LET got == GetMappedEntries(AsObject(Parsed), code_map, 0, Parsed.entries[1].key)
       IN /\ Len(got) = 2
          /\ got[1].offset = 1 /\ got[1].value.value.offset = 3
          /\ got[2].offset = 5 /\ got[2].value.key.offset = 6

(***************************************************************************)
(* string_literal applied to the strings of a bounded set.                 *)
(***************************************************************************)
LiteralAlphabet ==
    (0..U.control_last)
        \cup {Ch.space, Ch.quote, Ch.slash, Ch.backslash, Ch.a, Ch.u, Ch.del, 128,
              Ch.eacute, Ch.ls, U.replacement, Ch.emoji}

LiteralInit ==
    /\ ObjIdle
    /\ origin \in {[kind |-> "literal", str |-> s] :
                     s \in SeqsUpTo(LiteralAlphabet, MaxStrLen)}
    /\ input = <<>>
    /\ context = "None"
    /\ options = Strict
    /\ parser = ParserNew(input)
    /\ stack = <<>>
    /\ value = None
    /\ code_map = <<>>
    /\ result = None

\* string_literal(s, f)
PrintLiteral ==
    /\ ~result.some
    /\ result' = Some(StringLiteral(origin.str))
    /\ UNCHANGED <<entries, indexes, last, input, options, context, parser, stack,
                   value, code_map, origin>>

LiteralNext == PrintLiteral

SpecLiteral == LiteralInit /\ [][LiteralNext]_vars

HexLower == <<48, 49, 50, 51, 52, 53, 54, 55, 56, 57, 97, 98, 99, 100, 101, 102>>

\* What the statement has string_literal write for the character c.
StatedEscape(c) ==
    CASE c = 34 -> <<92, 34>>
      [] c = 92 -> <<92, 92>>
      [] c = 8 -> <<92, 98>>
      [] c = 9 -> <<92, 116>>
      [] c = 10 -> <<92, 110>>
      [] c = 12 -> <<92, 102>>
      [] c = 13 -> <<92, 114>>
      [] c \in (0..31) \ {8, 9, 10, 12, 13} ->
           <<92, 117, 48, 48, HexLower[(c \div 16) + 1], HexLower[(c % 16) + 1]>>
      [] OTHER -> <<c>>

RECURSIVE StatedEscapes(_)
StatedEscapes(s) ==
    IF s = <<>> THEN <<>> ELSE StatedEscape(Head(s)) \o StatedEscapes(Tail(s))

PrWord(n) == [i \in 1..n |-> Ch.a]
PrLeaves ==
    {VNull, VBoolean(FALSE), VNumber(<<Ch.one, Ch.one + 1>>), VString(PrWord(1)),
     VString(PrWord(8)), VString(PrWord(10)), VString(PrWord(11)),
     VString(<<Ch.lf, Ch.emoji>>)}
PrKeys == {KeyA, PrWord(5), PrWord(7)}
PrObject(es) == VObject(ObjectFromVec(es))
PrWrap(S) ==
    {VArray(<<x>>) : x \in S} \cup {PrObject(<<Entry(k, x)>>) : k \in PrKeys, x \in S}
PrFlat ==
    Arrays(PrLeaves, MaxItems)
        \cup {PrObject(es) :
                es \in SeqsUpTo({Entry(k, v) : k \in {KeyA, PrWord(5)},
                                               v \in {VNull, VString(PrWord(8))}},
                                MaxItems)}
PrInner ==
    {VNull, VNumber(<<Ch.one>>), VArray(<<>>), PrObject(<<>>), VArray(<<VNull>>),
     VArray(<<VNull, VArray(<<>>)>>), PrObject(<<Entry(KeyA, VNull)>>)}
PrPairs ==
    {VArray(<<x, y>>) : x \in PrInner, y \in PrInner}
        \cup {PrObject(<<Entry(KeyA, x), Entry(KeyB, y)>>) : x \in PrInner, y \in PrInner}
PrintValues ==
    PrLeaves \cup PrFlat \cup PrPairs \cup PrWrap(PrFlat) \cup PrWrap(PrWrap(PrInner))
        \cup PrWrap(PrWrap(PrWrap(PrInner)))
        \cup {VArray(<<VArray(<<VArray(<<VArray(<<x>>)>>)>>)>>) : x \in PrInner}

PrintInit ==
    /\ ObjIdle
    /\ origin \in {[kind |-> "print", val |-> v, preset |-> p] :
                     v \in PrintValues, p \in Presets}
    /\ input = <<>>
    /\ context = "None"
    /\ options = Strict
    /\ parser = ParserNew(input)
    /\ stack = <<>>
    /\ value = None
    /\ code_map = <<>>
    /\ result = None

\* value.pretty_print(), value.compact_print() or value.inline_print(),
\* written out by Display for Printed
PrintWith ==
    /\ ~result.some
    /\ result' = Some(PrintValue(origin.val, PresetOptions(origin.preset)))
    /\ UNCHANGED <<entries, indexes, last, input, options, context, parser, stack,
                   value, code_map, origin>>

PrintNext == PrintWith

SpecPrint == PrintInit /\ [][PrintNext]_vars

\* The children of a container, in order, and the text written before each.
ChildrenOf(v) ==
    IF v.kind = "array" THEN v.items
    ELSE IF v.kind = "object" THEN [i \in 1..Len(v.entries) |-> v.entries[i].value]
    ELSE <<>>
LabelOf(v, i) ==
    IF v.kind = "object"
    THEN StringLiteral(v.entries[i].key) \o <<Ch.colon, Ch.space>>
    ELSE <<>>
OpeningOf(v) == IF v.kind = "array" THEN Ch.lbracket ELSE Ch.lbrace
ClosingOf(v) == IF v.kind = "array" THEN Ch.rbracket ELSE Ch.rbrace

RECURSIVE StatedLine(_), StatedLineItems(_, _)
\* The items of v from the i-th on, on one line, separated by a comma and
\* a space.
StatedLineItems(v, i) ==
    IF i > Len(ChildrenOf(v)) THEN <<>>
    ELSE (IF i > 1 THEN <<Ch.comma, Ch.space>> ELSE <<>>)
            \o LabelOf(v, i) \o StatedLine(ChildrenOf(v)[i]) \o StatedLineItems(v, i + 1)
\* v on a single line: brackets, one space of padding inside them unless v
\* is empty.
StatedLine(v) ==
    IF v.kind \notin {"array", "object"} THEN Literal(v)
    ELSE IF ChildrenOf(v) = <<>> THEN <<OpeningOf(v), ClosingOf(v)>>
    ELSE <<OpeningOf(v), Ch.space>> \o StatedLineItems(v, 1) \o <<Ch.space, ClosingOf(v)>>

RECURSIVE StatedOnOneLine(_)
\* The stated condition: at most 1 item, at most 16 characters on a single
\* line, no descendant expanded.
StatedOnOneLine(v) ==
    \/ ChildrenOf(v) = <<>>
    \/ /\ Len(ChildrenOf(v)) <= 1
       /\ Len(StatedLine(v)) <= 16
       /\ \A i \in 1..Len(ChildrenOf(v)) : StatedOnOneLine(ChildrenOf(v)[i])

RECURSIVE EmptyContainers(_)
\* The number of empty arrays and objects in v.
EmptyContainers(v) ==
    IF v.kind \notin {"array", "object"} THEN 0
    ELSE IF ChildrenOf(v) = <<>> THEN 1
    ELSE LET RECURSIVE Sum(_)
             Sum(i) == IF i > Len(ChildrenOf(v)) THEN 0
                       ELSE EmptyContainers(ChildrenOf(v)[i]) + Sum(i + 1)
         IN Sum(1)

RECURSIVE CountedOnOneLine(_)
\* The same condition with the width the sizing pass counts, in which an
\* empty container takes the padding of a non-empty one.
CountedOnOneLine(v) ==
    \/ ChildrenOf(v) = <<>>
    \/ /\ Len(ChildrenOf(v)) <= 1
       /\ Len(StatedLine(v)) + 2 * EmptyContainers(v) <= 16
       /\ \A i \in 1..Len(ChildrenOf(v)) : CountedOnOneLine(ChildrenOf(v)[i])

RECURSIVE StatedPretty(_, _), StatedPrettyItems(_, _, _), CountedPretty(_, _),
          CountedPrettyItems(_, _, _)
StatedPrettyItems(v, i, level) ==
    IF i > Len(ChildrenOf(v)) THEN <<>>
    ELSE (IF i > 1 THEN <<Ch.comma, Ch.lf>> ELSE <<>>)
            \o Spaces(2 * (level + 1)) \o LabelOf(v, i)
            \o StatedPretty(ChildrenOf(v)[i], level + 1)
            \o StatedPrettyItems(v, i + 1, level)
\* The stated layout of v at a nesting level.
StatedPretty(v, level) ==
    IF StatedOnOneLine(v) THEN StatedLine(v)
    ELSE <<OpeningOf(v), Ch.lf>> \o StatedPrettyItems(v, 1, level)
            \o <<Ch.lf>> \o Spaces(2 * level) \o <<ClosingOf(v)>>

CountedPrettyItems(v, i, level) ==
    IF i > Len(ChildrenOf(v)) THEN <<>>
    ELSE (IF i > 1 THEN <<Ch.comma, Ch.lf>> ELSE <<>>)
            \o Spaces(2 * (level + 1)) \o LabelOf(v, i)
            \o CountedPretty(ChildrenOf(v)[i], level + 1)
            \o CountedPrettyItems(v, i + 1, level)
CountedPretty(v, level) ==
    IF CountedOnOneLine(v) THEN StatedLine(v)
    ELSE <<OpeningOf(v), Ch.lf>> \o CountedPrettyItems(v, 1, level)
            \o <<Ch.lf>> \o Spaces(2 * level) \o <<ClosingOf(v)>>

(***************************************************************************)
(* C30: with the pretty options a non-empty array or object is printed on  *)
(* a single line if and only if it has at most 1 item, its single-line     *)
(* width with brackets and padding is at most 16 characters and none of    *)
(* its descendants is expanded, and otherwise one item per line with 2     *)
(* spaces of indentation per nesting level; with the inline and the        *)
(* compact options nothing is printed on more than one line.               *)
(***************************************************************************)
C30_PrettyLayout ==
    result.some =>
        IF origin.preset = "pretty"
        THEN result.val = StatedPretty(origin.val, 0)
        ELSE ~InRange(Ch.lf, result.val)

\* The layout the printer does produce: the stated one, with each empty
\* container counted as 4 characters wide where it is written as 2.
PrettyLayoutAsCounted ==
    result.some =>
        IF origin.preset = "pretty"
        THEN result.val = CountedPretty(origin.val, 0)
        ELSE ~InRange(Ch.lf, result.val)

\* { "aaaaa": [] } is 15 characters wide and is printed on three lines.
PrettyLayoutDiverges ==
    /\ result.some
    /\ origin.preset = "pretty"
    /\ origin.val = PrObject(<<Entry(PrWord(5), VArray(<<>>))>>)
    /\ Len(StatedLine(origin.val)) = 15
    /\ result.val = <<Ch.lbrace, Ch.lf, Ch.space, Ch.space>>
                        \o StringLiteral(PrWord(5))
                        \o <<Ch.colon, Ch.space, Ch.lbracket, Ch.rbracket, Ch.lf, Ch.rbrace>>

(***************************************************************************)
(* Typed conversions.  try_from.rs : TryFromJson for (), bool, the number  *)
(* types, String, Vec<T> and Option<T>.  A target type is a record: a      *)
(* scalar [t |-> name], [t |-> "vec", of |-> T] or [t |-> "option",        *)
(* of |-> T].                                                              *)
(***************************************************************************)
TUnit == [t |-> "unit"]
TBool == [t |-> "bool"]
TString == [t |-> "string"]
TU8 == [t |-> "u8"]
TI8 == [t |-> "i8"]
TF64 == [t |-> "f64"]
TVec(T) == [t |-> "vec", of |-> T]
TOption(T) == [t |-> "option", of |-> T]

Mapped_new(offset, e) == [ok |-> FALSE, err |-> [offset |-> offset, error |-> e]]
UnexpectedKind(expected, found) ==
    [kind |-> "Unexpected", expected |-> expected, found |-> found]
OutOfBounds(ty) == [kind |-> "OutOfBounds", ty |-> ty]
Converted(x) == [ok |-> TRUE, val |-> x]

\* <u8 as FromStr>::from_str and <i8 as FromStr>::from_str on the text of
\* the number: an optional sign (a minus only for a signed type), then
\* decimal digits only, the value within the range of the type.
IntFromStr(ty, num) ==
    LET signed == ty = "i8"
        neg == signed /\ num # <<>> /\ Head(num) = Ch.minus
        digits == IF neg THEN Tail(num) ELSE num
        n == DigitsValue(digits)
    IN IF digits = <<>> \/ \E i \in 1..Len(digits) : ~IsDigit(digits[i])
       THEN None
       ELSE IF neg THEN (IF n > 128 THEN None ELSE Some(0 - n))
       ELSE IF n > (IF signed THEN 127 ELSE 255) THEN None
       ELSE Some(n)

\* The decimal d, of value 0.digits * 10^n, is larger than every finite f64.
BeyondF64(d) ==
    \/ d.n > 309
    \/ d.n = 309 /\ SeqCmp(d.digits, <<49, 55, 57, 55, 54, 57, 51, 49, 51, 52, 56, 54, 50, 51,
                                        49, 53, 56, 48, 55>>) >= 0

\* <f64 as FromStr>::from_str accepts every JSON number and gives the
\* nearest f64, which is an infinity for a decimal beyond the finite ones.
F64FromStr(num) ==
    LET d == NumberDecimal(num)
    IN Some(IF BeyondF64(d) THEN [inf |-> TRUE, neg |-> d.neg]
            ELSE [inf |-> FALSE, neg |-> d.neg, digits |-> d.digits, n |-> d.n])

\* value.parse() in number_from_json!
NumberParseAs(ty, num) == IF ty = "f64" THEN F64FromStr(num) ELSE IntFromStr(ty, num)

KindOfTarget(T) ==
    CASE T.t = "unit" -> "null"
      [] T.t = "bool" -> "boolean"
      [] T.t \in {"u8", "i8", "f64"} -> "number"
      [] T.t = "string" -> "string"
      [] T.t = "vec" -> "array"

RECURSIVE TryFromJsonAt(_, _, _, _), CollectItems(_, _, _, _)

\* .map(|item| T::try_from_json_at(item.value, code_map, item.offset))
\* .collect::<Result<Vec<_>, _>>() over the mapped items, from the first.
CollectItems(T, its, cm, acc) ==
    IF its = <<>> THEN Converted(acc)
    ELSE LET r == TryFromJsonAt(T, Head(its).value, cm, Head(its).offset)
         IN IF r.ok THEN CollectItems(T, Tail(its), cm, Append(acc, r.val)) ELSE r

\* T::try_from_json_at(json, code_map, offset)
TryFromJsonAt(T, json, cm, offset) ==
    CASE T.t = "option" ->
            IF json.kind = "null" THEN Converted(None)
            ELSE LET r == TryFromJsonAt(T.of, json, cm, offset)
                 IN IF r.ok THEN Converted(Some(r.val)) ELSE r
      [] T.t = "unit" ->
            IF json.kind = "null" THEN Converted(<<>>)
            ELSE Mapped_new(offset, UnexpectedKind({"null"}, json.kind))
      [] T.t = "bool" ->
            IF json.kind = "boolean" THEN Converted(json.bool)
            ELSE Mapped_new(offset, UnexpectedKind({"boolean"}, json.kind))
      [] T.t \in {"u8", "i8", "f64"} ->
            IF json.kind = "number"
            THEN IF NumberParseAs(T.t, json.num).some
                 THEN Converted(NumberParseAs(T.t, json.num).val)
                 ELSE Mapped_new(offset, OutOfBounds(T.t))
            ELSE Mapped_new(offset, UnexpectedKind({"number"}, json.kind))
      [] T.t = "string" ->
            IF json.kind = "string" THEN Converted(json.str)
            ELSE Mapped_new(offset, UnexpectedKind({"string"}, json.kind))
      [] T.t = "vec" ->
            IF json.kind = "array"
            THEN CollectItems(T.of, ArrayIterMapped(json.items, cm, offset), cm, <<>>)
            ELSE Mapped_new(offset, UnexpectedKind({"array"}, json.kind))

(***************************************************************************)
(* A document is parsed, then the parsed value is converted with           *)
(* T::try_from_json(&value, &code_map).                                    *)
(***************************************************************************)
ConvNumbers ==
    {<<49>>, <<50, 53, 53>>, <<50, 53, 54>>, <<45, 49>>, <<49, 50, 56>>, <<45, 49, 50, 56>>,
     <<45, 49, 50, 57>>, <<49, 46, 53>>, <<49, 101, 51, 48, 56>>, <<49, 101, 57, 57, 57>>,
     <<45, 50, 69, 51, 48, 56>>}
ConvLeaves ==
    {VNull, VBoolean(TRUE), VString(KeyA)} \cup {VNumber(n) : n \in ConvNumbers}
ConvItems ==
    {VNull, VBoolean(TRUE), VNumber(<<49>>), VNumber(<<50, 53, 54>>),
     VNumber(<<49, 101, 57, 57, 57>>)}
ConvInner ==
    {VArray(<<VNumber(<<49>>), VNumber(<<49>>)>>), VArray(<<VNull, VNumber(<<49>>)>>),
     VObject(ObjectFromVec(<<Entry(KeyA, VArray(<<VNumber(<<49>>)>>))>>))}
ConvValues ==
    ConvLeaves \cup Arrays(ConvItems, MaxItems)
        \cup {VArray(<<x, y>>) : x \in ConvInner, y \in ConvItems \cup ConvInner}
        \cup {VArray(<<x, y, VArray(<<y>>)>>) : x \in ConvInner, y \in ConvItems}
        \cup ConvInner
ScalarTargets == {TUnit, TBool, TString, TU8, TI8, TF64}
Targets ==
    ScalarTargets \cup {TVec(T) : T \in ScalarTargets} \cup {TOption(T) : T \in ScalarTargets}
        \cup {TVec(TVec(TU8)), TVec(TVec(TF64)), TVec(TOption(TU8)), TOption(TVec(TI8)),
              TVec(TOption(TVec(TBool)))}

\* T::try_from_json(value, code_map) : the offset of value is 0
TryFromJson ==
    /\ Accepted
    /\ last.op = "new"
    /\ last' = [last EXCEPT !.op = "try_from_json",
                            !.before = TryFromJsonAt(origin.target, Parsed, code_map, 0)]
    /\ UNCHANGED <<entries, indexes, input, options, context, parser, stack, value,
                   code_map, result, origin>>

ConvertNext == ParseNext \/ TryFromJson

SpecConvert ==
    ParseInit({[kind |-> "printed", val |-> v, preset |-> "compact", target |-> T] :
                 v \in ConvValues, T \in Targets})
        /\ [][ConvertNext]_vars

ConversionDone == last.op = "try_from_json"
Conversion == last.before

\* The number does not fit the target type.
Fits(ty, num) ==
    LET d == NumberDecimal(num)
        whole == Len(d.digits) <= d.n
        n == DigitsValue(d.digits \o Repeat(Ch.zero, d.n - Len(d.digits)))
    IN CASE ty = "f64" -> ~BeyondF64(d)
         [] ty = "u8" -> d.digits = <<>> \/ (whole /\ d.n <= 3 /\ ~d.neg /\ n <= 255)
         [] ty = "i8" -> d.digits = <<>>
                            \/ (whole /\ d.n <= 3 /\ (IF d.neg THEN n <= 128 ELSE n <= 127))

ValueVolume(v) == StatedVolume(FragmentRefValue(v))

RECURSIVE VolumesBefore(_, _)
VolumesBefore(items, i) ==
    IF i <= 1 THEN 0 ELSE VolumesBefore(items, i - 1) + ValueVolume(items[i - 1])

\* The failures the statement requires of the conversion of v, at code-map
\* offset off, into T.
RECURSIVE StatedFailures(_, _, _)
StatedFailures(T, v, off) ==
    CASE T.t = "option" -> IF v.kind = "null" THEN {} ELSE StatedFailures(T.of, v, off)
      [] v.kind # KindOfTarget(T) ->
            {[offset |-> off, error |-> UnexpectedKind({KindOfTarget(T)}, v.kind)]}
      [] T.t = "vec" ->
            UNION {StatedFailures(T.of, v.items[i], off + 1 + VolumesBefore(v.items, i)) :
                     i \in 1..Len(v.items)}
      [] T.t \in {"u8", "i8", "f64"} ->
            IF Fits(T.t, v.num) THEN {}
            ELSE {[offset |-> off, error |-> OutOfBounds(T.t)]}
      [] OTHER -> {}

\* The value at an offset of the code map.
ValueAtOffset(o) == At(Fragments, o).value

(***************************************************************************)
(* C31: a typed conversion of a value of the wrong kind fails with         *)
(* Unexpected { expected: the kind set of the target, found: the kind of   *)
(* the value } at the code-map offset of that very value (the offset       *)
(* passed in for a scalar; for an item of a Vec<T> the offset of the array *)
(* plus 1 plus the volumes of the items before it); a number that does not *)
(* fit the target type fails with OutOfBounds at the offset of the number; *)
(* Option<T> converts null to None and never fails on null.                *)
(***************************************************************************)
C31_TypedConversion ==
    ConversionDone =>
        /\ StatedFailures(origin.target, Parsed, 0) # {} =>
              /\ ~Conversion.ok
              /\ Conversion.err \in StatedFailures(origin.target, Parsed, 0)
        /\ (~Conversion.ok /\ Conversion.err.error.kind = "Unexpected") =>
              /\ Conversion.err \in StatedFailures(origin.target, Parsed, 0)
              /\ At(Fragments, Conversion.err.offset).tag = "Value"
              /\ ValueAtOffset(Conversion.err.offset).kind = Conversion.err.error.found
        /\ (~Conversion.ok /\ Conversion.err.error.kind = "OutOfBounds") =>
              /\ At(Fragments, Conversion.err.offset).tag = "Value"
              /\ ValueAtOffset(Conversion.err.offset).kind = "number"
        /\ (origin.target.t = "option" /\ Parsed.kind = "null") =>
              Conversion = Converted(None)

\* The same, for every target but f64 and the types built on it.
RECURSIVE OverF64(_)
OverF64(T) == IF T.t \in {"vec", "option"} THEN OverF64(T.of) ELSE T.t = "f64"
TypedConversionOfIntegers == ~OverF64(origin.target) => C31_TypedConversion

\* [[1,1],256] into Vec<Vec<u8>> : Unexpected at offset 4.
TypedConversionAtItem ==
    /\ ConversionDone
    /\ origin.target = TVec(TVec(TU8))
    /\ Parsed = VArray(<<VArray(<<VNumber(<<49>>), VNumber(<<49>>)>>),
                         VNumber(<<50, 53, 54>>)>>)
    /\ Conversion = Mapped_new(4, UnexpectedKind({"array"}, "number"))

\* 1e999 into f64 : Ok(inf).
TypedConversionToInfinity ==
    /\ ConversionDone
    /\ origin.target = TF64
    /\ Parsed = VNumber(<<49, 101, 57, 57, 57>>)
    /\ Conversion = Converted([inf |-> TRUE, neg |-> FALSE])

(***************************************************************************)
(* Nested arrays.  The documents [ ... [ ] ... ] and [ ... [ 1 ] ... ] of  *)
(* every depth up to MaxDepth, and the printed documents of the parser's   *)
(* specification, are parsed.                                              *)
(***************************************************************************)
MaxDepth == 6

NestedText(n, leaf) ==
    [i \in 1..n |-> Ch.lbracket] \o leaf \o [i \in 1..n |-> Ch.rbracket]

RECURSIVE NestedArrays(_, _)
NestedArrays(n, leaf) ==
    IF n = 0 THEN leaf
    ELSE VArray(IF n = 1 /\ leaf = <<>> THEN <<>> ELSE <<NestedArrays(n - 1, leaf)>>)

NestedOrigins ==
    {[kind |-> "typed", text |-> NestedText(n, leaf), depth |-> n, leaf |-> leaf] :
        n \in 1..MaxDepth, leaf \in {<<>>, <<Ch.one>>}}
        \cup {[kind |-> "printed", val |-> v, preset |-> p] :
                v \in DocValues, p \in {"compact", "pretty"}}

SpecNested == ParseInit(NestedOrigins) /\ [][ParseNext]_vars

\* The number of arrays and objects that the text s has opened and not
\* closed, brackets inside strings not counted.
RECURSIVE OpenContainers(_, _, _)
OpenContainers(s, inString, open) ==
    IF s = <<>> THEN open
    ELSE IF inString
    THEN IF Head(s) = Ch.backslash THEN OpenContainers(Tail(Tail(s)), TRUE, open)
         ELSE OpenContainers(Tail(s), Head(s) # Ch.quote, open)
    ELSE OpenContainers(Tail(s), Head(s) = Ch.quote,
                        IF Head(s) \in {Ch.lbracket, Ch.lbrace} THEN open + 1
                        ELSE IF Head(s) \in {Ch.rbracket, Ch.rbrace} THEN open - 1
                        ELSE open)

(***************************************************************************)
(* C32: nesting depth is held in the work stack of the parser only: a      *)
(* document of n nested arrays, for each n from 1 to MaxDepth, is parsed   *)
(* to n nested arrays, and at every turn of the loop the work stack is no  *)
(* longer than the number of containers open at that point.                *)
(***************************************************************************)
C32_DepthOnStack ==
    /\ Len(stack) <= OpenContainers(Consumed, FALSE, 0)
    /\ (result.some /\ origin.kind = "typed") =>
          /\ Accepted
          /\ Parsed = NestedArrays(origin.depth,
                                   IF origin.leaf = <<>> THEN <<>> ELSE VNumber(origin.leaf))

\* Inside the innermost of MaxDepth arrays: one item of the stack for each
\* of them.
C32_Witness ==
    /\ origin.kind = "typed"
    /\ origin.depth = MaxDepth
    /\ Len(stack) = MaxDepth
    /\ OpenContainers(Consumed, FALSE, 0) = MaxDepth
    /\ \A i \in 1..Len(stack) : stack[i].tag = "ArrayItem"

(***************************************************************************)
(* remove_at and the index.                                                *)
(***************************************************************************)
\* The Indexes of a set of positions: the smallest is the representative,
\* the others follow in ascending order.
RECURSIVE Ascending(_)
Ascending(S) ==
    IF S = {} THEN <<>>
    ELSE LET m == CHOOSE x \in S : \A y \in S : x <= y
         IN <<m>> \o Ascending(S \ {m})

IndexesOfMembers(S) == [rep |-> Head(Ascending(S)), other |-> Tail(Ascending(S))]

\* The positions S once position i is gone: i is dropped, the positions
\* above it are decremented by one.
MembersAfterRemoval(S, i) == {IF m > i THEN m - 1 ELSE m : m \in S \ {i}}

RemoveAtAsStated(o, i, after) ==
    LET call == RemoveAt(o, i)
        n == Len(o.entries)
    IN IF i < n
       THEN /\ call.removed = Some(o.entries[i + 1])
            /\ call.obj = after
            /\ Len(after.entries) = n - 1
            /\ \A j \in 0..(i - 1) : At(after.entries, j) = At(o.entries, j)
            /\ \A j \in i..(n - 2) : At(after.entries, j) = At(o.entries, j + 1)
            /\ after.indexes =
                  {IndexesOfMembers(MembersAfterRemoval(Members(ix), i)) :
                     ix \in {x \in o.indexes : Members(x) # {i}}}
            /\ \A ix \in o.indexes :
                  /\ (ix.rep = i /\ ix.other # <<>>) =>
                        \E x \in after.indexes :
                            /\ x.rep = ix.other[1] - 1
                            /\ At(after.entries, x.rep).key = At(o.entries, i).key
                  /\ (ix.rep = i /\ ix.other = <<>>) =>
                        /\ ~IndexMapGet(after.indexes, after.entries, At(o.entries, i).key).some
                        /\ Cardinality(after.indexes) = Cardinality(o.indexes) - 1
       ELSE /\ call.removed = None
            /\ after = o

\* C33.  remove_at(i) with i < len returns entries[i] and removes exactly
\* that entry: the entries below i are untouched, the entries above i move
\* down by one, every stored index greater than i in every Indexes is
\* decremented by one, and for the key of the removed entry the smallest
\* remaining index becomes the representative when i was the representative
\* (the key leaves the index when i was its only position); with i >= len it
\* returns None and changes neither the entries nor the index.
C33_RemoveAt ==
    [][last'.op = "remove_at" =>
          RemoveAtAsStated(Obj, last'.index, [entries |-> entries', indexes |-> indexes'])]_vars

\* remove_at(0) on (a,1), (b,1), (a,2), (a,1) : position 0 was the
\* representative of a; positions 2 and 3 become 1 and 2, 1 the
\* representative.
C33_Witness ==
    /\ last.op = "remove_at"
    /\ last.index = 0
    /\ last.ret
    /\ Len(last.before) = 4
    /\ Scan(last.before, KeyA) = <<0, 2, 3>>
    /\ indexes = {[rep |-> 0, other |-> <<>>], [rep |-> 1, other |-> <<2>>]}
    /\ entries = Tail(last.before)

\* remove_at past the end: None, nothing changes.
RemoveAtPastEnd ==
    /\ last.op = "remove_at"
    /\ ~last.ret
    /\ last.index >= Len(entries)
    /\ entries = last.before
    /\ entries # <<>>

(***************************************************************************)
(* Values printed with options records: the presets, records whose array   *)
(* paddings differ from their object paddings, records with padding in     *)
(* empty containers, and each kind of limit.                               *)
(***************************************************************************)
OptionsRecords ==
    {Pretty, Compact, Inline,
     [Inline EXCEPT !.array_begin = 2, !.array_end = 0],
     [Inline EXCEPT !.array_begin = 2],
     [Compact EXCEPT !.array_empty = 1, !.object_empty = 2],
     [Pretty EXCEPT !.array_limit = Some(Limit("Always", 0, 0)),
                    !.object_limit = Some(Limit("Item", 1, 0))],
     [Pretty EXCEPT !.array_limit = Some(Limit("Width", 0, 12)),
                    !.object_limit = None, !.object_before_colon = 1,
                    !.array_before_comma = 1]}

PrintWithInit ==
    /\ ObjIdle
    /\ origin \in {[kind |-> "print_with", val |-> v, po |-> po] :
                     v \in PrintValues, po \in OptionsRecords}
    /\ input = <<>>
    /\ context = "None"
    /\ options = Strict
    /\ parser = ParserNew(input)
    /\ stack = <<>>
    /\ value = None
    /\ code_map = <<>>
    /\ result = None

\* value.print_with(options), written out by Display for Printed
PrintWithOptions ==
    /\ ~result.some
    /\ result' = Some(PrintValue(origin.val, origin.po))
    /\ UNCHANGED <<entries, indexes, last, input, options, context, parser, stack,
                   value, code_map, origin>>

PrintWithNext == PrintWithOptions

SpecPrintWith == PrintWithInit /\ [][PrintWithNext]_vars

\* The arrays and objects of v, in depth-first pre-order.
RECURSIVE ContainersOf(_), ContainersOfAll(_)
ContainersOf(v) ==
    IF v.kind \in {"array", "object"} THEN <<v>> \o ContainersOfAll(ChildrenOf(v)) ELSE <<>>
ContainersOfAll(vs) ==
    IF vs = <<>> THEN <<>> ELSE ContainersOf(Head(vs)) \o ContainersOfAll(Tail(vs))

\* The sizes computed for the value printed.
SizesOf(v, po) == PreComputeSize(v, po, <<>>).sizes

\* What the emission writes for the j-th container of v (from 0), which it
\* reaches with the running index at j.
EmittedAt(v, po, j) ==
    FmtWithSize(At(ContainersOf(v), j), po, 0, SizesOf(v, po),
                [out |-> <<>>, index |-> j, read |-> <<>>])

(***************************************************************************)
(* C34: whenever the size pass marks an array or object as Width(k), the   *)
(* text emitted for that container, on a single line, is exactly k         *)
(* characters long: for every container, empty or not, and for every       *)
(* options record, also when the array and object paddings differ.         *)
(***************************************************************************)
C34_WidthIsExact ==
    result.some =>
        \A j \in 0..(Len(SizesOf(origin.val, origin.po)) - 1) :
            ~At(SizesOf(origin.val, origin.po), j).expanded =>
                /\ ~InRange(Ch.lf, EmittedAt(origin.val, origin.po, j).out)
                /\ Len(EmittedAt(origin.val, origin.po, j).out)
                      = At(SizesOf(origin.val, origin.po), j).width

\* The width is exact for the containers without an empty container in
\* them, under the options whose array and object paddings agree.
RECURSIVE HasEmptyContainer(_)
HasEmptyContainer(v) ==
    /\ v.kind \in {"array", "object"}
    /\ \/ ChildrenOf(v) = <<>>
       \/ \E i \in 1..Len(ChildrenOf(v)) : HasEmptyContainer(ChildrenOf(v)[i])

WidthExactWithoutEmpty ==
    (result.some /\ origin.po.array_begin + origin.po.array_end
                       = origin.po.object_begin + origin.po.object_end) =>
        \A j \in 0..(Len(SizesOf(origin.val, origin.po)) - 1) :
            (/\ ~At(SizesOf(origin.val, origin.po), j).expanded
             /\ ~HasEmptyContainer(At(ContainersOf(origin.val), j))) =>
                Len(EmittedAt(origin.val, origin.po, j).out)
                    = At(SizesOf(origin.val, origin.po), j).width

\* [] with the pretty options: Width(4), written as 2 characters.
WidthOfEmptyArray ==
    /\ result.some
    /\ origin.po = Pretty
    /\ origin.val = VArray(<<>>)
    /\ SizesOf(origin.val, origin.po) = <<SizeWidth(4)>>
    /\ result.val = <<Ch.lbracket, Ch.rbracket>>

\* [  null ] with array paddings 2 and 1 and object paddings 1 and 1:
\* Width(8) from the object paddings, written as 9 characters.
WidthOfPaddedArray ==
    /\ result.some
    /\ origin.po = [Inline EXCEPT !.array_begin = 2]
    /\ origin.val = VArray(<<VNull>>)
    /\ SizesOf(origin.val, origin.po) = <<SizeWidth(8)>>
    /\ Len(result.val) = 9

(***************************************************************************)
(* The sizes vector and the running index of the emission.                 *)
(***************************************************************************)
\* The container as the emission names it: an object by its entries.
AsRead(c) == IF c.kind = "object" THEN [kind |-> "object", entries |-> c.entries] ELSE c

(***************************************************************************)
(* C35: while a value is printed the sizes vector holds exactly one entry  *)
(* per array or object of the value, in depth-first pre-order, and the     *)
(* emission reads entry number j for the j-th container it opens: the      *)
(* running index is smaller than sizes.len() whenever it is read, grows by *)
(* exactly one per container and equals sizes.len() when printing ends.    *)
(***************************************************************************)
C35_SizesInLockstep ==
    result.some =>
        LET cs == ContainersOf(origin.val)
            sizes == SizesOf(origin.val, origin.po)
            em == Emission(origin.val, origin.po)
        IN /\ Len(sizes) = Len(cs)
           /\ \A j \in 1..Len(cs) : sizes[j] = PreComputeSize(cs[j], origin.po, <<>>).size
           /\ Len(em.read) = Len(cs)
           /\ \A j \in 1..Len(em.read) :
                 /\ em.read[j].index = j - 1
                 /\ em.read[j].index < Len(sizes)
                 /\ em.read[j].of = AsRead(cs[j])
           /\ em.index = Len(sizes)
           /\ em.out = result.val

\* [ [ 1, 1 ], {"a": [ null, [] ]} ] or the like: containers at three
\* depths, a container after a sibling that holds containers, some expanded.
C35_Witness ==
    /\ result.some
    /\ origin.po = Pretty
    /\ Len(ContainersOf(origin.val)) = 4
    /\ origin.val.kind = "array"
    /\ Len(origin.val.items) = 2
    /\ origin.val.items[1].kind = "array"
    /\ Len(ContainersOf(origin.val.items[1])) = 2
    /\ origin.val.items[2].kind = "object"
    /\ Emission(origin.val, origin.po).index = 4
    /\ SizesOf(origin.val, origin.po)[1].expanded
    /\ ~SizesOf(origin.val, origin.po)[4].expanded

(***************************************************************************)
(* The arm of Item::ArrayItem on a fragment that begins a container.       *)
(***************************************************************************)
\* The fragment the arm of ArrayItem gets in the current state.
ArrayItemFragment == ValueOrParse(value, parser, "Array", options)

\* The top of the stack is ArrayItem and its fragment begins an array or an
\* object.
NestedInArrayItem ==
    /\ Running
    /\ stack # <<>>
    /\ Top.tag = "ArrayItem"
    /\ ArrayItemFragment.ok
    /\ ArrayItemFragment.val.v.tag \in {"BeginArray", "BeginObject"}

\* After the step the parent array is back on the stack in the state
\* `state`, with the items it had, and the builder of the new container is
\* above it; the items below are as they were.
ParentBelowBuilder(state) ==
    LET n == Len(stack)
    IN /\ Len(stack') = n + 1
       /\ SubSeq(stack', 1, n - 1) = Popped
       /\ stack'[n].tag = state
       /\ stack'[n].cont = Top.cont
       /\ stack'[n].span = SpanUnion(Top.span, ArrayItemFragment.val.span)
       /\ stack'[n + 1].span = ArrayItemFragment.val.span
       /\ IF ArrayItemFragment.val.v.tag = "BeginArray"
          THEN stack'[n + 1].tag = "ArrayItem" /\ stack'[n + 1].cont = <<>>
          ELSE /\ stack'[n + 1].tag = "ObjectEntry"
               /\ stack'[n + 1].cont = ObjectNew
               /\ stack'[n + 1].key = ArrayItemFragment.val.v.key
       /\ value' = None

(***************************************************************************)
(* C36: when the top of the work stack is ArrayItem and the fragment       *)
(* parsed for that item starts a nested array or object, the parser puts   *)
(* the parent array back on the stack in state Array and pushes the        *)
(* builder of the new container above it.                                  *)
(***************************************************************************)
C36_ParentPushedAsArray ==
    [][NestedInArrayItem => ParentBelowBuilder("Array")]_vars

\* C36 as the code has it: the parent array goes back on the stack in state
\* ArrayItem, the state in which it takes the finished container as its
\* next item, and the builder of the new container is pushed above it.
C36_ParentPushedAsArrayItem ==
    [][NestedInArrayItem => ParentBelowBuilder("ArrayItem")]_vars

\* Under an array that holds an item already, the builder of an object that
\* the array gets as its next item.
C36_Witness ==
    /\ Running
    /\ Len(stack) >= 2
    /\ stack[Len(stack) - 1].tag = "ArrayItem"
    /\ stack[Len(stack) - 1].cont # <<>>
    /\ Top.tag = "ObjectEntry"
    /\ Top.cont = ObjectNew
    /\ ~value.some

(***************************************************************************)
(* C37.  The parser terminates on every finite stream: every turn of the   *)
(* main loop consumes at least one character of the stream, or consumes    *)
(* the pending value, or ends the parse.  The turns of the string, number  *)
(* and whitespace loops are made inside a turn of the main loop, each on   *)
(* the parser left by next_char, so what is left of the stream together    *)
(* with the pending value is a measure that every turn decreases.          *)
(***************************************************************************)
Remaining(p) == Len(p.chars)
Fuel(p, v) == 2 * Remaining(p) + (IF v.some THEN 1 ELSE 0)

ConsumesChar == Remaining(parser') < Remaining(parser)
ConsumesValue == value.some /\ ~value'.some /\ Remaining(parser') = Remaining(parser)
EndsParse == ~result.some /\ result'.some

\* C37: every turn of the main loop consumes a character, consumes the
\* pending value, or ends the parse, and unless it ends the parse it
\* decreases the measure, which is never negative.
C37_Terminates ==
    [][/\ ConsumesChar \/ ConsumesValue \/ EndsParse
       /\ ~EndsParse => (Fuel(parser', value') < Fuel(parser, value)
                            /\ Fuel(parser', value') >= 0)]_vars

\* A parse that ended well after turns of each kind: the document is an
\* array whose last item is a container, taken as a pending value.
C37_Witness ==
    /\ Accepted
    /\ parser.chars = <<>>
    /\ Parsed.kind = "array"
    /\ Len(Parsed.items) >= 2
    /\ Parsed.items[Len(Parsed.items)].kind \in {"array", "object"}

(***************************************************************************)
(* C38.  The pending value of Value::parse_spanned.  It is set where a     *)
(* container is closed and taken by value_or_parse in the next turn of the *)
(* loop, which is a turn of the parent of that container.                  *)
(***************************************************************************)
\* The pending value is where it can be taken: the stack is empty, or its top
\* is a container that waits for the value of an item or of an entry.
PendingWellPlaced ==
    value.some =>
        /\ Running
        /\ stack = <<>> \/ Top.tag \in {"ArrayItem", "ObjectEntry"}

\* The turn made with a pending value gives it to the parent, once: the
\* parent has one more item, or one more entry under the key it had read,
\* and nothing else on the stack has changed; with no parent the value is
\* what the parse returns.  Nothing is read from the stream.
PendingTakenOnce ==
    /\ ~value'.some
    /\ parser' = parser
    /\ IF stack = <<>>
       THEN result' = Some(Ok(parser, value.val))
       ELSE /\ ~result'.some
            /\ Len(stack') = Len(stack)
            /\ SubSeq(stack', 1, Len(stack) - 1) = Popped
            /\ stack'[Len(stack)].tag = (IF Top.tag = "ArrayItem" THEN "Array" ELSE "Object")
            /\ IF Top.tag = "ArrayItem"
               THEN stack'[Len(stack)].cont = Append(Top.cont, value.val.v)
               ELSE stack'[Len(stack)].cont.entries
                        = Append(Top.cont.entries, Entry(Top.key.v, value.val.v))

\* C38: at the start of every turn of the main loop the pending value is
\* non-empty only if the stack is empty or its top is ArrayItem or
\* ObjectEntry, never while the top is Array or Object, and a container
\* that has just been closed is taken by its parent as exactly one item or
\* entry value in the next turn.
C38_PendingValue ==
    [][/\ PendingWellPlaced
       /\ PendingWellPlaced'
       /\ value.some => PendingTakenOnce]_vars

\* An object that has an entry already and is about to take a container
\* that has just been closed as the value of its next entry.
C38_Witness ==
    /\ Running
    /\ value.some
    /\ value.val.v.kind \in {"array", "object"}
    /\ stack # <<>>
    /\ Top.tag = "ObjectEntry"
    /\ Top.cont.entries # <<>>

\* The same for an array inside an array.
PendingForArrayItem ==
    /\ Running
    /\ value.some
    /\ Len(stack) >= 2
    /\ Top.tag = "ArrayItem"

(***************************************************************************)
(* object/mod.rs : remove_unique.  The iterator of remove is asked for its *)
(* first entry and, if there is one, for its second; it is dropped when    *)
(* the function returns, and Drop runs it to its end.                      *)
(***************************************************************************)
\* A remove_unique whose iterator is forgotten instead of dropped.
ObjectRemoveUniqueForgotten(o, k) ==
    LET call == ObjectRemove(o, k)
        entry == RemovedEntriesNext(call.ret, call.object)
        duplicate == RemovedEntriesNext(entry.it, entry.object)
    IN IF entry.item.some
       THEN IF duplicate.item.some
            THEN [object |-> duplicate.object,
                  ret |-> Duplicate(entry.item.val, duplicate.item.val)]
            ELSE [object |-> duplicate.object, ret |-> UniqueOk(Some(entry.item.val))]
       ELSE [object |-> entry.object, ret |-> UniqueOk(None)]

\* Object::remove_unique : the object once the function has returned, and
\* what it returns.
ObjectRemoveUnique(o, k) ==
    LET call == ObjectRemove(o, k)
        entry == RemovedEntriesNext(call.ret, call.object)
        duplicate == RemovedEntriesNext(entry.it, entry.object)
    IN IF entry.item.some
       THEN IF duplicate.item.some
            THEN [object |-> RemoveDropped(duplicate.object, k),
                  ret |-> Duplicate(entry.item.val, duplicate.item.val)]
            ELSE [object |-> RemoveDropped(duplicate.object, k),
                  ret |-> UniqueOk(Some(entry.item.val))]
       ELSE [object |-> RemoveDropped(entry.object, k), ret |-> UniqueOk(None)]

\* The record of the call keeps whether the result is Ok.
RemoveUnique ==
    \E k \in Keys :
        LET r == ObjectRemoveUnique(Obj, k) IN
        /\ SetObj(r.object)
        /\ Called("remove_unique", k, VNull, -1, r.ret.ok)

UniqueNext == ObjNext \/ RemoveUnique

SpecRemoveUnique == ObjInit /\ [][UniqueNext]_vars

\* What remove_unique(k) is stated to do on the object o, `after` being the
\* object when the function has returned and ok whether it returned Ok.
RemoveUniqueAsStated(o, k, after, ok) ==
    LET scan == Scan(o.entries, k)
        ret == ObjectRemoveUnique(o, k).ret
    IN /\ ok = ret.ok
       /\ Len(scan) = 0 => ret = UniqueOk(None) /\ after = o
       /\ Len(scan) = 1 =>
             /\ ret = UniqueOk(Some(At(o.entries, scan[1])))
             /\ after.entries = Without(o.entries, {scan[1]})
       /\ Len(scan) >= 2 =>
             /\ ret = Duplicate(At(o.entries, scan[1]), At(o.entries, scan[2]))
             /\ after.entries = Without(o.entries, {scan[j] : j \in 1..Len(scan)})
       /\ Scan(after.entries, k) = <<>>
       /\ \A other \in Keys \ {k} :
             [j \in 1..Len(Scan(after.entries, other)) |->
                 At(after.entries, Scan(after.entries, other)[j])]
               = [j \in 1..Len(Scan(o.entries, other)) |->
                     At(o.entries, Scan(o.entries, other)[j])]
       /\ IndexSound(after.entries, after.indexes)

\* C39.  remove_unique(k) returns Ok(None) and changes nothing when no entry
\* has key k; removes and returns the single entry when exactly one has it;
\* when two or more have it, returns Err(Duplicate) holding the two matching
\* entries of lowest position and, by the time it returns, every entry with
\* key k has been removed, the others keeping their relative order.
C39_RemoveUnique ==
    [][last'.op = "remove_unique" =>
          RemoveUniqueAsStated(Obj, last'.key,
                               [entries |-> entries', indexes |-> indexes'],
                               last'.ret)]_vars

\* A remove_unique of the key of the entries at positions 0, 2 and 3, with
\* different values at 0 and 2: it failed, and the entry of the other key at
\* position 1 is all that is left.
C39_Witness ==
    /\ last.op = "remove_unique"
    /\ ~last.ret
    /\ last.key = KeyB
    /\ Len(last.before) = 4
    /\ Scan(last.before, KeyB) = <<0, 2, 3>>
    /\ At(last.before, 0).value # At(last.before, 2).value
    /\ entries = <<At(last.before, 1)>>

\* A remove_unique of a key that one entry has, between two of the other key.
RemoveUniqueOfOne ==
    /\ last.op = "remove_unique"
    /\ last.ret
    /\ Len(last.before) = 3
    /\ Scan(last.before, last.key) = <<1>>
    /\ entries = <<At(last.before, 0), At(last.before, 2)>>

\* A remove_unique of a key that no entry has.
RemoveUniqueOfNone ==
    /\ last.op = "remove_unique"
    /\ last.ret
    /\ last.before # <<>>
    /\ Scan(last.before, last.key) = <<>>
    /\ entries = last.before

(***************************************************************************)
(* C40.  Unordered equality of objects as a relation: the check of the     *)
(* entries of the right operand against the left one is made only when the *)
(* left operand has a key more than once.                                  *)
(***************************************************************************)
\* The first check of unordered_eq: every entry of a has, under its key in
\* b, an entry with an unordered-equal value.
EveryEntryMatched(a, b) ==
    \A i \in 1..Len(a.entries) :
        \E j \in 1..Len(b.entries) :
            /\ b.entries[j].key = a.entries[i].key
            /\ ValueUnorderedEq(a.entries[i].value, b.entries[j].value)

BothObjects == origin.a.kind = "object" /\ origin.b.kind = "object"

\* C40: unordered equality of objects is reflexive and symmetric:
\* A.unordered_eq(A) holds and A.unordered_eq(B) = B.unordered_eq(A).
C40_ReflexiveSymmetric ==
    BothObjects =>
        /\ ObjectUnorderedEq(AsObject(origin.a), AsObject(origin.a))
        /\ ObjectUnorderedEq(AsObject(origin.b), AsObject(origin.b))
        /\ ObjectUnorderedEq(AsObject(origin.a), AsObject(origin.b))
              = ObjectUnorderedEq(AsObject(origin.b), AsObject(origin.a))
        /\ result.some =>
              result.val = ObjectUnorderedEq(AsObject(origin.b), AsObject(origin.a))

\* Two objects of the same length found different by the second check alone:
\* the left one has a key twice and each of its entries is found in the
\* right one, which has an entry the left one has not.
C40_Witness ==
    /\ BothObjects
    /\ result.some
    /\ ~result.val
    /\ Len(origin.a.entries) = Len(origin.b.entries)
    /\ ContainsDuplicateKeys(origin.a.indexes)
    /\ ~ContainsDuplicateKeys(origin.b.indexes)
    /\ EveryEntryMatched(origin.a, origin.b)
    /\ ~EveryEntryMatched(origin.b, origin.a)

\* Two objects found equal in both directions, the entries of one in another
\* order than those of the other, with a key twice and nested objects.
SymmetricOnNested ==
    /\ BothObjects
    /\ result.some
    /\ result.val
    /\ origin.a # origin.b
    /\ ContainsDuplicateKeys(origin.a.indexes)
    /\ \E i \in 1..Len(origin.a.entries) : origin.a.entries[i].value.kind = "object"
====
